---- MODULE Spec2Model ----
(***************************************************************************)
(* Model of the reconciliation engine of gcalendar-filter-sync             *)
(* (scripts/worker.js) together with the filter-edit and force-resync      *)
(* scripts that write the same SQLite tables.                              *)
(*                                                                         *)
(* The Calendar Provider (Google Calendar) is modelled by the variables    *)
(* source (the shared source calendar) and target (the target calendars).  *)
(* The three SQLite tables are the variables subscriptions,                *)
(* subscription_state and event_mappings.  A run of the worker is a        *)
(* sequence of steps, one per provider round trip, driven by pc.           *)
(***************************************************************************)
EXTENDS Integers, Sequences, FiniteSets, TLC

(***************************************************************************)
(* Bounds of the model.                                                    *)
(***************************************************************************)
\* number of source modifications the provider performs in a behaviour
MaxVer == 2
\* number of filter edits / force resyncs performed in a behaviour
MaxFilterEdits == 1
\* number of outside edits of a target calendar in a behaviour
MaxOutside == 1
\* number of process crashes in a behaviour
MaxCrash == 1
\* number of event ids the target calendars can hand out
MaxTid == 6
\* number of items the provider returns on one page of a listing
PageSize == 2
\* provider calls that fail in one behaviour
MaxFaults == 1
\* subscriptions that lose their refresh token in one behaviour
MaxNoToken == 1

(***************************************************************************)
(* Text: a string is a sequence of one-character strings.  "a'" stands for *)
(* the precomposed letter a-acute and "'" for the combining acute accent   *)
(* that NFD normalisation splits it into.                                  *)
(***************************************************************************)
Undefined == <<"\\undefined">>
Null == <<"\\null">>
Omitted == <<"\\omitted">>

Or(v, d) == IF v = Undefined \/ v = Null \/ v = <<>> THEN d ELSE v

toLowerCase(s) ==
    [i \in 1..Len(s) |->
        CASE s[i] = "A" -> "a"
          [] s[i] = "B" -> "b"
          [] s[i] = "A'" -> "a'"
          [] OTHER -> s[i]]

RECURSIVE NFD(_)
NFD(s) ==
    IF s = <<>> THEN <<>>
    ELSE (IF Head(s) = "a'" THEN <<"a", "'">> ELSE <<Head(s)>>) \o NFD(Tail(s))

IsDiacritic(c) == c = "'"
IsSpace(c) == c \in {" ", "\t"}

stripDiacritics(s) == SelectSeq(s, LAMBDA c : ~IsDiacritic(c))

RECURSIVE collapseSpaces(_)
collapseSpaces(s) ==
    IF s = <<>> THEN <<>>
    ELSE IF IsSpace(Head(s))
         THEN IF Len(s) > 1 /\ IsSpace(s[2])
              THEN collapseSpaces(Tail(s))
              ELSE <<" ">> \o collapseSpaces(Tail(s))
         ELSE <<Head(s)>> \o collapseSpaces(Tail(s))

RECURSIVE trimStart(_)
trimStart(s) ==
    IF s # <<>> /\ IsSpace(Head(s)) THEN trimStart(Tail(s)) ELSE s

RECURSIVE trimEnd(_)
trimEnd(s) ==
    IF s # <<>> /\ IsSpace(s[Len(s)])
    THEN trimEnd(SubSeq(s, 1, Len(s) - 1)) ELSE s

trim(s) == trimEnd(trimStart(s))

\* worker.js normalize: lower-case, strip accents, collapse white space, trim
\* (each stage is bound to its value before the next one reads it)
normalize(s) ==
    CHOOSE r \in { trim(c) : c \in { collapseSpaces(d) : d \in
                  { stripDiacritics(n) : n \in { NFD(l) : l \in
                  { toLowerCase(o) : o \in { Or(s, <<>>) } } } } } } : TRUE

includes(blob, k) ==
    \E i \in 0..(Len(blob) - Len(k)) : SubSeq(blob, i + 1, i + Len(k)) = k

RECURSIVE split(_, _)
split(s, sep) ==
    IF \A i \in 1..Len(s) : s[i] # sep THEN <<s>>
    ELSE LET p == CHOOSE i \in 1..Len(s) :
                     s[i] = sep /\ \A j \in 1..(i - 1) : s[j] # sep
         IN  <<SubSeq(s, 1, p - 1)>> \o split(SubSeq(s, p + 1, Len(s)), sep)

RECURSIVE join(_, _)
join(list, sep) ==
    IF list = <<>> THEN <<>>
    ELSE IF Len(list) = 1 THEN list[1]
    ELSE list[1] \o sep \o join(Tail(list), sep)

Map(f(_), seq) == [i \in 1..Len(seq) |-> f(seq[i])]

(***************************************************************************)
(* Matcher.  A regular expression is modelled for literal patterns only:  *)
(* a case-insensitive search of the pattern in one field.                  *)
(***************************************************************************)
reTest(pattern, text) == includes(toLowerCase(text), toLowerCase(pattern))

keysOfKeepEmpty(filters_raw) ==
    Map(normalize, split(filters_raw, ","))

keysOf(filters_raw) ==
    SelectSeq(Map(normalize, split(filters_raw, ",")), LAMBDA k : k # <<>>)

\* makeMatcher(filter_type, filters_raw)(ev)
makeMatcher(filter_type, filters_raw, ev) ==
    IF filter_type = "regex"
    THEN \/ reTest(filters_raw, Or(ev.summary, <<>>))
         \/ reTest(filters_raw, Or(ev.description, <<>>))
         \/ reTest(filters_raw, Or(ev.location, <<>>))
    ELSE LET keys == keysOf(filters_raw)
             blob == normalize(Or(ev.summary, <<>>) \o <<" ">>
                                 \o Or(ev.description, <<>>) \o <<" ">>
                                 \o Or(ev.location, <<>>))
         IN  \E i \in 1..Len(keys) : includes(blob, keys[i])

(***************************************************************************)
(* Fingerprint.  The SHA-1 digest of the canonical serialisation is       *)
(* modelled by the canonical serialisation itself: the values of the keys  *)
(* in sorted order, a key whose value is undefined being left out by       *)
(* JSON.stringify.  A nested object (start, end, reminders) is the tuple   *)
(* of its keys and values in the order the provider sent them:             *)
(* <<key, value, key, value, ...>>, with true as 1 and false as 0.         *)
(***************************************************************************)
HasKey(obj, k) == \E i \in 1..(Len(obj) \div 2) : obj[2 * i - 1] = k
Get(obj, k) == obj[2 * (CHOOSE i \in 1..(Len(obj) \div 2) : obj[2 * i - 1] = k)]

\* the keys of the nested objects in the order of Array.prototype.sort
KeyOrder == <<"date", "dateTime", "overrides", "timeZone", "useDefault">>

\* {dateTime, timeZone} with the keys in this order
DateTime(n) == <<"dateTime", n, "timeZone", 0>>
\* the instant of a start or an end
Instant(obj) == IF HasKey(obj, "dateTime") THEN Get(obj, "dateTime")
                ELSE Get(obj, "date")

buildPayloadFromSource(ev) ==
    [summary      |-> IF ev.summary = Undefined THEN Null ELSE ev.summary,
     description  |-> IF ev.description = Undefined THEN Null ELSE ev.description,
     location     |-> IF ev.location = Undefined THEN Null ELSE ev.location,
     start        |-> ev.start,
     end          |-> ev.end,
     reminders    |-> IF /\ ev.reminders # Undefined /\ ev.reminders # Null
                         /\ HasKey(ev.reminders, "useDefault")
                         /\ Get(ev.reminders, "useDefault") = 1
                      THEN <<"useDefault", 1>>
                      ELSE IF ev.reminders = Null THEN Undefined
                      ELSE ev.reminders,
     transparency |-> Or(ev.transparency, <<"o", "p", "a", "q", "u", "e">>)]

\* sortDeep of a nested object left as the provider sent it
sortDeepUnsorted(obj) == obj

\* sortDeep of a nested object: its keys sorted
sortDeep(obj) ==
    LET ks == SelectSeq(KeyOrder, LAMBDA k : HasKey(obj, k))
    IN  [i \in 1..(2 * Len(ks)) |->
            IF i % 2 = 1 THEN ks[(i + 1) \div 2] ELSE Get(obj, ks[i \div 2])]

stableStringify(obj) ==
    LET val(v) == IF v = Undefined THEN Omitted ELSE v
        deep(v) == IF v = Undefined THEN Omitted ELSE sortDeep(v)
    IN  << val(obj.description), deep(obj.end), val(obj.location),
           deep(obj.reminders), deep(obj.start), val(obj.summary),
           val(obj.transparency) >>

fingerprintOfPayload(payload) == stableStringify(payload)

(***************************************************************************)
(* The universe of the model: two subscriptions, one source calendar with  *)
(* a single event s1 and a recurring series m1 with two occurrences, and   *)
(* a table of mirrored-field values the events take.                       *)
(***************************************************************************)
Subs == {"A", "B"}
SubOrder == <<"A", "B">>
TargetCals == {"t1", "t2"}
SourceIds == {"s1", "m1", "m1_1", "m1_2"}
FeedOrder == <<"s1", "m1", "m1_1", "m1_2">>
WindowOrder == <<"s1", "m1_1", "m1_2">>
TargetIds == 1..MaxTid

IsSeries(id) == id = "m1"
IsOccurrence(id) == id \in {"m1_1", "m1_2"}
MasterOf(id) == IF IsOccurrence(id) THEN "m1" ELSE ""
InstancesOf(id) == IF id = "m1" THEN <<"m1_1", "m1_2">> ELSE <<>>
StartOf(id) == IF id = "m1_2" THEN 3 ELSE 1

Contents ==
    << [summary |-> <<"A'">>, description |-> Undefined, location |-> Undefined],
       [summary |-> <<"B">>,  description |-> Undefined, location |-> Undefined],
       [summary |-> <<"A'">>, description |-> Undefined, location |-> <<"b">>] >>
ContentIds == 1..Len(Contents)

\* the values a filter-edit command line can carry
FilterValues == { <<"a">>, <<"b">> }

NULL == -1
Now == 1
BACKFILL_BEHIND_DAYS == 1

VARIABLES
    \* ---- Calendar Provider ----
    source,             \* source calendar: id -> [status, content, etag]
    srcVer,             \* the provider's modification clock (last etag issued)
    target,             \* target calendars: cal -> (target id -> event)
    \* ---- SQLite tables ----
    subscriptions,      \* sub -> row of table subscriptions
    subscription_state, \* sub -> row of table subscription_state
    event_mappings,     \* sub -> (source_id -> [target_id, etag, fingerprint])
    \* ---- environment of the worker process ----
    DEDUP_MATCH_FILTERS_ONLY,
    BACKFILL_AHEAD_DAYS,
    tokens,             \* token store: sub -> whether a refresh token is stored
    \* ---- the worker process ----
    pc,                 \* position of the worker
    subs,               \* runAll: the subscriptions still to run
    sub,                \* runSubscription: the subscription being run
    state,              \* runSubscription: sync_token read at the start
    data,               \* current page: items left, nextPageToken, nextSyncToken
    valid,              \* dedupeTarget: mapped target ids read at its start
    counts,             \* runSubscription: created, updated, removed
    \* ---- a second worker process, started while the first one runs ----
    peer,               \* its position inside upsertTarget and its locals
    \* ---- history ----
    lastOp,             \* the remote write of the last step
    hist,               \* what happened so far (for stating the properties)
    \* ---- one call of a function of worker.js on its own ----
    args,               \* the arguments of the call
    result              \* what the call returned

provider == <<source, srcVer, target>>
tables == <<subscriptions, subscription_state, event_mappings>>
env == <<DEDUP_MATCH_FILTERS_ONLY, BACKFILL_AHEAD_DAYS, tokens, peer, args, result>>
worker == <<pc, subs, sub, state, data, valid, counts>>
vars == <<source, srcVer, target, subscriptions, subscription_state,
          event_mappings, DEDUP_MATCH_FILTERS_ONLY, BACKFILL_AHEAD_DAYS, tokens,
          pc, subs, sub, state, data, valid, counts, peer, lastOp, hist,
          args, result>>

(***************************************************************************)
(* Calendar Provider: the event as the API returns it.                     *)
(***************************************************************************)
Stored(src, id) ==
    IF IsOccurrence(id) /\ src[MasterOf(id)].status # "confirmed"
        THEN src[MasterOf(id)]
    ELSE IF IsOccurrence(id) /\ src[id].status = "inherit"
        THEN src[MasterOf(id)]
    ELSE src[id]

EvOf(src, id) ==
    LET st == Stored(src, id)
        c  == Contents[st.content]
    IN  [id               |-> id,
         status           |-> st.status,
         etag             |-> st.etag,
         recurrence       |-> IsSeries(id),
         recurringEventId |-> MasterOf(id),
         summary          |-> c.summary,
         description      |-> c.description,
         location         |-> c.location,
         start            |-> DateTime(StartOf(id)),
         end              |-> DateTime(StartOf(id)),
         reminders        |-> Undefined,
         transparency     |-> Undefined]

Ev(id) == EvOf(source, id)

isRecurringMaster(ev) == ev.recurrence /\ ev.recurringEventId = ""
isInstanceOrSingle(ev) == ~ev.recurrence \/ ev.recurringEventId # ""

timeMin == Now - BACKFILL_BEHIND_DAYS
timeMax == Now + BACKFILL_AHEAD_DAYS
InWindow(ev) == timeMin <= Instant(ev.start) /\ Instant(ev.start) <= timeMax

\* events.list on the source with showDeleted, singleEvents=false and an
\* optional syncToken: single events, masters and exceptions, tombstones too
ChangeFeed(syncToken) ==
    LET inFeed(id) ==
            /\ source[id].status \in {"confirmed", "cancelled"}
            /\ IsOccurrence(id) => source[MasterOf(id)].status = "confirmed"
            /\ syncToken = NULL \/ Ev(id).etag > syncToken
    IN  Map(Ev, SelectSeq(FeedOrder, inFeed))

\* events.list on the source with singleEvents=true, timeMin and timeMax
WindowFeed ==
    LET inFeed(id) == Ev(id).status = "confirmed" /\ InWindow(Ev(id))
    IN  Map(Ev, SelectSeq(WindowOrder, inFeed))

\* events.instances of one master with timeMin and timeMax
InstanceFeed(masterId) ==
    LET inFeed(id) == Ev(id).status = "confirmed" /\ InWindow(Ev(id))
    IN  Map(Ev, SelectSeq(InstancesOf(masterId), inFeed))

RECURSIVE SetToSeq(_)
SetToSeq(S) ==
    IF S = {} THEN <<>>
    ELSE LET x == CHOOSE y \in S : \A z \in S : y <= z
         IN  <<x>> \o SetToSeq(S \ {x})

\* events.list on a target calendar
TargetFeed(t, cal) ==
    Map(LAMBDA id : t[cal][id], SetToSeq(DOMAIN t[cal]))

\* one page of a listing: pageToken stands for the rest of the listing
PageOf(full) ==
    [items         |-> SubSeq(full, 1, IF Len(full) < PageSize THEN Len(full) ELSE PageSize),
     nextPageToken |-> SubSeq(full, PageSize + 1, Len(full))]

\* listChanges
listChanges(pageToken, syncToken) ==
    LET full == IF pageToken = <<>> THEN ChangeFeed(syncToken) ELSE pageToken
        page == PageOf(full)
    IN  [items         |-> page.items,
         nextPageToken |-> page.nextPageToken,
         nextSyncToken |-> IF page.nextPageToken = <<>> THEN srcVer ELSE NULL]

(***************************************************************************)
(* CRUD in the target.  The operators work on a record R holding the       *)
(* mapping table (m), the target calendars (t), the counters of the run,   *)
(* the remote write performed (op) and the code of a provider error (err). *)
(***************************************************************************)
\* op: the CRUD call of the step and the provider's answer to it
Op(kind, source_id, target_id, why, err) ==
    [kind |-> kind, source_id |-> source_id, target_id |-> target_id,
     why |-> why, err |-> err]
NoOp == Op("none", "", 0, "", 0)

Begin(m, t, c) ==
    [m |-> m, t |-> t, op |-> NoOp, err |-> 0, fail |-> 0,
     created |-> c.created, updated |-> c.updated, removed |-> c.removed]

\* the provider answers the remote write of the call with error code
Failing(R, code) == [R EXCEPT !.fail = code]

Remove(f, k) == [x \in (DOMAIN f) \ {k} |-> f[x]]
Put(f, k, v) == [x \in (DOMAIN f) \cup {k} |-> IF x = k THEN v ELSE f[x]]

\* ids the provider has not handed out to anything still referred to
FreeIds(R) ==
    TargetIds \ ( UNION { DOMAIN R.t[c] : c \in TargetCals }
                  \cup UNION { { R.m[s][x].target_id : x \in DOMAIN R.m[s] } : s \in Subs }
                  \cup valid )

NoFreeId == -1

TargetEvent(id, payload, origin) ==
    [id |-> id, summary |-> payload.summary, description |-> payload.description,
     location |-> payload.location, start |-> payload.start, end |-> payload.end,
     reminders |-> payload.reminders, transparency |-> payload.transparency,
     origin |-> origin]

needsUpdateAlways(existing, ev, fp, forceUpdate) == TRUE

needsUpdateNoForce(existing, ev, fp, forceUpdate) ==
    existing.fingerprint # fp \/ existing.etag # ev.etag

needsUpdateNoEtag(existing, ev, fp, forceUpdate) ==
    existing.fingerprint # fp \/ forceUpdate

\* the condition of upsertTarget for rewriting a mapped target event
needsUpdate(existing, ev, fp, forceUpdate) ==
    LET contentChanged == existing.fingerprint # fp
        etagChanged == existing.etag # ev.etag
    IN  contentChanged \/ etagChanged \/ forceUpdate

upsertTargetInsertOnly(R, subId, targetCalId, ev, forceUpdate) ==
    LET payload == buildPayloadFromSource(ev)
        fp == fingerprintOfPayload(payload)
    IN  IF FreeIds(R) = {}
        THEN [R EXCEPT !.err = NoFreeId, !.op = NoOp]
        ELSE LET id == CHOOSE i \in FreeIds(R) : \A j \in FreeIds(R) : i <= j
             IN  [R EXCEPT
                    !.t[targetCalId] = Put(@, id, TargetEvent(id, payload, ev.id)),
                    !.m[subId] = Put(@, ev.id,
                             [target_id |-> id, etag |-> ev.etag,
                              fingerprint |-> fp]),
                    !.op = Op("create", ev.id, id, "", 0),
                    !.created = @ + 1]

upsertTarget(R, subId, targetCalId, ev, forceUpdate) ==
    LET payload == buildPayloadFromSource(ev)
        fp == fingerprintOfPayload(payload)
    IN  IF ev.id \in DOMAIN R.m[subId]
        THEN LET existing == R.m[subId][ev.id]
                 why == IF existing.fingerprint # fp THEN "content"
                        ELSE IF existing.etag # ev.etag THEN "etag" ELSE "force"
             IN  IF needsUpdate(existing, ev, fp, forceUpdate)
                 THEN IF R.fail # 0
                      THEN \* events.update throws
                           [R EXCEPT !.err = R.fail,
                              !.op = Op("update", ev.id, existing.target_id, why, R.fail)]
                      ELSE IF existing.target_id \notin DOMAIN R.t[targetCalId]
                      THEN \* events.update answers 404
                           [R EXCEPT !.err = 404,
                              !.op = Op("update", ev.id, existing.target_id, why, 404)]
                      ELSE [R EXCEPT
                              !.t[targetCalId][existing.target_id] =
                                  TargetEvent(existing.target_id, payload, @.origin),
                              !.m[subId][ev.id] =
                                  [target_id |-> existing.target_id,
                                   etag |-> ev.etag, fingerprint |-> fp],
                              !.op = Op("update", ev.id, existing.target_id, why, 0),
                              !.updated = @ + 1]
                 ELSE [R EXCEPT !.op = Op("skip", ev.id, existing.target_id, "", 0)]
        ELSE IF R.fail # 0
             THEN \* events.insert throws
                  [R EXCEPT !.err = R.fail, !.op = Op("create", ev.id, 0, "", R.fail)]
        ELSE IF FreeIds(R) = {}
             THEN [R EXCEPT !.err = NoFreeId, !.op = NoOp]
             ELSE LET id == CHOOSE i \in FreeIds(R) : \A j \in FreeIds(R) : i <= j
                  IN  [R EXCEPT
                         !.t[targetCalId] = Put(@, id, TargetEvent(id, payload, ev.id)),
                         !.m[subId] = Put(@, ev.id,
                                  [target_id |-> id, etag |-> ev.etag,
                                   fingerprint |-> fp]),
                         !.op = Op("create", ev.id, id, "", 0),
                         !.created = @ + 1]

deleteEventNothing(t, targetCalId, id) == t

\* events.delete on a target calendar, a 404 answer being swallowed
deleteEvent(t, targetCalId, id) == [t EXCEPT ![targetCalId] = Remove(@, id)]

removeTargetKeepRow(R, subId, targetCalId, sourceId) ==
    IF sourceId \notin DOMAIN R.m[subId]
    THEN [R EXCEPT !.op = Op("absent", sourceId, 0, "", 0)]
    ELSE LET row == R.m[subId][sourceId]
         IN  [R EXCEPT
                !.t = deleteEvent(@, targetCalId, row.target_id),
                !.op = Op("delete", sourceId, row.target_id, "", 0),
                !.removed = @ + 1]

removeTargetKeepEvent(R, subId, targetCalId, sourceId) ==
    IF sourceId \notin DOMAIN R.m[subId]
    THEN [R EXCEPT !.op = Op("absent", sourceId, 0, "", 0)]
    ELSE LET row == R.m[subId][sourceId]
         IN  [R EXCEPT
                !.m[subId] = Remove(@, sourceId),
                !.op = Op("delete", sourceId, row.target_id, "", 0),
                !.removed = @ + 1]

removeTargetLocalFirst(R, subId, targetCalId, sourceId) ==
    IF sourceId \notin DOMAIN R.m[subId]
    THEN [R EXCEPT !.op = Op("absent", sourceId, 0, "", 0)]
    ELSE LET row == R.m[subId][sourceId]
         IN  IF R.fail # 0
             THEN [R EXCEPT !.err = R.fail,
                     !.m[subId] = Remove(@, sourceId),
                     !.op = Op("delete", sourceId, row.target_id, "", R.fail)]
             ELSE
             [R EXCEPT
                !.t = deleteEvent(@, targetCalId, row.target_id),
                !.m[subId] = Remove(@, sourceId),
                !.op = Op("delete", sourceId, row.target_id, "",
                          IF row.target_id \in DOMAIN R.t[targetCalId] THEN 0 ELSE 404),
                !.removed = @ + 1]

removeTargetNotFoundThrows(R, subId, targetCalId, sourceId) ==
    IF sourceId \notin DOMAIN R.m[subId]
    THEN [R EXCEPT !.op = Op("absent", sourceId, 0, "", 0)]
    ELSE LET row == R.m[subId][sourceId]
         IN  IF R.fail # 0
             THEN [R EXCEPT !.err = R.fail,
                     !.op = Op("delete", sourceId, row.target_id, "", R.fail)]
             ELSE IF row.target_id \notin DOMAIN R.t[targetCalId]
             THEN [R EXCEPT !.err = 404,
                     !.op = Op("delete", sourceId, row.target_id, "", 404)]
             ELSE
             [R EXCEPT
                !.t = deleteEvent(@, targetCalId, row.target_id),
                !.m[subId] = Remove(@, sourceId),
                !.op = Op("delete", sourceId, row.target_id, "", 0),
                !.removed = @ + 1]

removeTarget(R, subId, targetCalId, sourceId) ==
    IF sourceId \notin DOMAIN R.m[subId]
    THEN [R EXCEPT !.op = Op("absent", sourceId, 0, "", 0)]
    ELSE LET row == R.m[subId][sourceId]
         IN  IF R.fail # 0
             THEN \* events.delete throws something other than 404
                  [R EXCEPT !.err = R.fail,
                     !.op = Op("delete", sourceId, row.target_id, "", R.fail)]
             ELSE
             [R EXCEPT
                !.t = deleteEvent(@, targetCalId, row.target_id),
                !.m[subId] = Remove(@, sourceId),
                !.op = Op("delete", sourceId, row.target_id, "",
                          IF row.target_id \in DOMAIN R.t[targetCalId] THEN 0 ELSE 404),
                !.removed = @ + 1]

(***************************************************************************)
(* runSubscription.                                                        *)
(***************************************************************************)
match(subId, ev) ==
    makeMatcher(subscriptions[subId].filter_type,
                subscriptions[subId].filters_raw, ev)

targetOf(subId) == subscriptions[subId].target_calendar_id

saveStateStatusOnly(ss, subId, sync_token, last_status) ==
    [ss EXCEPT ![subId] =
        [sync_token  |-> IF sync_token # NULL THEN sync_token ELSE @.sync_token,
         last_run_at |-> @.last_run_at,
         last_status |-> last_status]]

saveStateAll(ss, subId, sync_token, last_status) ==
    [s \in Subs |->
        [sync_token  |-> IF sync_token # NULL THEN sync_token
                         ELSE ss[s].sync_token,
         last_run_at |-> "set",
         last_status |-> last_status]]

saveState(ss, subId, sync_token, last_status) ==
    [ss EXCEPT ![subId] =
        [sync_token  |-> IF sync_token # NULL THEN sync_token ELSE @.sync_token,
         last_run_at |-> "set",
         last_status |-> last_status]]

NoData == [items |-> <<>>, nextPageToken |-> <<>>, nextSyncToken |-> NULL]
NoCounts == [created |-> 0, updated |-> 0, removed |-> 0]
Item(kind, ev) == [kind |-> kind, ev |-> ev]
Items(kind, evs) == [i \in 1..Len(evs) |-> Item(kind, evs[i])]

R0 == Begin(event_mappings, target, counts)

NoRuns == [s \in Subs |-> 0]
\* no run has been interrupted
NoExpect == [set |-> FALSE, sub |-> "", at |-> "", m |-> <<>>, t |-> <<>>,
             source |-> <<>>, edits |-> 0]
NoEnd == [s \in Subs |-> "none"]

\* runSubscription returns: its local variables are gone
Return ==
    /\ sub' = ""
    /\ state' = NULL
    /\ data' = NoData
    /\ valid' = {}
    /\ counts' = NoCounts

\* error codes the provider answers a call with, while the run may fail
ErrorCodes == {410, 500}
Answers == {0} \cup (IF hist.faults < hist.budget.faults THEN ErrorCodes ELSE {})

CatchAllErrors(code, h, injected) ==
    /\ subscription_state' =
          saveState(subscription_state, sub, NULL, "error")
    /\ hist' = [h EXCEPT !.done[sub] = 0, !.ended[sub] = "error",
                         !.cancelSeen = {}, !.deduped = {},
                         !.faults = IF injected THEN @ + 1 ELSE @]
    /\ pc' = "runAll"
    /\ Return

\* the catch block of runSubscription for an error with this code, followed
\* by the return to runAll or by the catch block of runAll; injected says
\* whether the provider failed though the call was in order
Catch(code, h, injected) ==
    /\ IF code = 410
       THEN /\ subscription_state' =
                  [subscription_state EXCEPT ![sub].sync_token = NULL]
            /\ hist' = [h EXCEPT !.done[sub] = 0, !.ended[sub] = "expired",
                                 !.cancelSeen = {}, !.deduped = {},
                                 !.faults = IF injected THEN @ + 1 ELSE @]
       ELSE /\ subscription_state' =
                  saveState(subscription_state, sub, NULL, "error")
            /\ hist' = [h EXCEPT !.done[sub] = 0, !.ended[sub] = "error",
                                 !.cancelSeen = {}, !.deduped = {},
                                 !.faults = IF injected THEN @ + 1 ELSE @]
    /\ pc' = "runAll"
    /\ Return

\* the result of one step of a pass: the writes of R when the provider
\* raised no error, and otherwise the catch block
Step(R, items, h) ==
    /\ R.err # NoFreeId
    /\ R.fail = 0 \/ R.err = R.fail
    /\ event_mappings' = R.m
    /\ target' = R.t
    /\ lastOp' = R.op
    /\ IF R.err = 0
       THEN /\ counts' = [created |-> R.created, updated |-> R.updated,
                          removed |-> R.removed]
            /\ data' = [data EXCEPT !.items = items]
            /\ hist' = h
            /\ UNCHANGED <<subscription_state, pc>>
            /\ UNCHANGED <<sub, state, valid>>
       ELSE Catch(R.err, h, R.fail # 0)
    /\ UNCHANGED <<source, srcVer, subscriptions, env, subs>>

\* a list or get call of the provider throws
CallFails(code) ==
    /\ code # 0
    /\ lastOp' = Op(pc, "", 0, "", code)
    /\ Catch(code, hist, TRUE)
    /\ UNCHANGED <<provider, subscriptions, event_mappings, env, subs>>

Head1 == Head(data.items)

(***************************************************************************)
(* runAll and the four passes of runSubscription.                          *)
(***************************************************************************)
RunAll ==
    /\ pc = "idle"
    /\ subs' = SelectSeq(SubOrder, LAMBDA s : subscriptions[s].is_enabled)
    /\ pc' = "runAll"
    /\ lastOp' = NoOp
    /\ UNCHANGED <<provider, tables, env, sub, state, data, valid, counts, hist>>

RunAllStopsAtError ==
    /\ pc = "runAll"
    /\ \/ subs = <<>>
       \/ \E i \in 1..Len(hist.batch) :
             hist.ended[hist.batch[i]] \in {"error", "threw"}
    /\ pc' = "idle"
    /\ lastOp' = NoOp
    /\ subs' = <<>>
    /\ hist' = [hist EXCEPT !.batch = <<>>]
    /\ UNCHANGED <<provider, tables, env, sub, state, data, valid, counts>>

RunAllDone ==
    /\ pc = "runAll"
    /\ subs = <<>>
    /\ pc' = "idle"
    /\ lastOp' = NoOp
    /\ hist' = [hist EXCEPT !.batch = <<>>]
    /\ UNCHANGED <<provider, tables, env, subs, sub, state, data, valid, counts>>

\* new RegExp(pattern, "i") throws a SyntaxError: an unterminated group
RegExpThrows(pattern) ==
    \E i \in 1..Len(pattern) :
        /\ pattern[i] = "("
        /\ \A j \in (i + 1)..Len(pattern) : pattern[j] # ")"

makeMatcherThrows(filter_type, filters_raw) ==
    filter_type = "regex" /\ RegExpThrows(filters_raw)

\* oauthForTokenKey throws: the token store holds no refresh token
oauthForTokenKeyThrows(subId) == ~tokens[subId]

\* runSubscription up to the first listChanges; an error thrown before the
\* try block goes to the catch block of runAll
RunSubscription ==
    /\ pc = "runAll"
    /\ subs # <<>>
    /\ subs' = Tail(subs)
    /\ lastOp' = NoOp
    /\ IF \/ oauthForTokenKeyThrows(Head(subs))
          \/ makeMatcherThrows(subscriptions[Head(subs)].filter_type,
                               subscriptions[Head(subs)].filters_raw)
       THEN /\ hist' = [hist EXCEPT !.done[Head(subs)] = 0,
                                    !.ended[Head(subs)] = "threw",
                                    !.batch = Append(@, Head(subs))]
            /\ UNCHANGED <<pc, sub, state, data, counts, valid>>
       ELSE /\ sub' = Head(subs)
            /\ state' = subscription_state[Head(subs)].sync_token
            /\ data' = NoData
            /\ counts' = NoCounts
            /\ valid' = {}
            /\ pc' = "listChanges"
            /\ hist' = [hist EXCEPT !.cancelSeen = {}, !.deduped = {},
                                    !.ended[Head(subs)] = "running",
                                    !.batch = Append(@, Head(subs)),
                                    !.edit = IF @ = "raced" THEN "none" ELSE @]
    /\ UNCHANGED <<provider, tables, env>>

ListChanges ==
    /\ pc = "listChanges"
    /\ \E code \in Answers :
       IF code # 0 THEN CallFails(code)
       ELSE
       /\ LET d == listChanges(data.nextPageToken, state)
          IN  data' = [d EXCEPT !.items = Items("delta", d.items)]
       /\ pc' = "delta"
       /\ lastOp' = NoOp
       /\ UNCHANGED <<provider, tables, env, subs, sub, state, valid, counts, hist>>

deltaBranchUpsertAll(subId, ev) ==
    IF ev.status = "cancelled" THEN "cancelled"
    ELSE IF isRecurringMaster(ev) THEN "master"
    ELSE "upsert"

deltaBranchNoMaster(subId, ev) ==
    IF ev.status = "cancelled" THEN "cancelled"
    ELSE IF match(subId, ev) THEN "upsert"
    ELSE "remove"

\* the branch the delta loop takes for one item of the change feed
deltaBranch(subId, ev) ==
    IF ev.status = "cancelled" THEN "cancelled"
    ELSE IF isRecurringMaster(ev) THEN "master"
    ELSE IF isInstanceOrSingle(ev) /\ match(subId, ev) THEN "upsert"
    ELSE "remove"

DeltaCancelled ==
    /\ pc = "delta" /\ data.items # <<>>
    /\ Head1.kind = "delta"
    /\ deltaBranch(sub, Head1.ev) = "cancelled"
    /\ \E code \in Answers :
          Step(removeTarget(Failing(R0, code), sub, targetOf(sub), Head1.ev.id), Tail(data.items),
            [hist EXCEPT !.cancelSeen = @ \cup {Head1.ev.id}])

\* refreshSeriesForMasterChange: the instances to refresh, followed by the
\* removal of a mapping of the master itself
DeltaMaster ==
    /\ pc = "delta" /\ data.items # <<>>
    /\ Head1.kind = "delta"
    /\ deltaBranch(sub, Head1.ev) = "master"
    /\ \E code \in Answers :
       IF code # 0 THEN CallFails(code)
       ELSE
       /\ data' = [data EXCEPT !.items =
                      Items("instance", InstanceFeed(Head1.ev.id))
                      \o <<Item("master", Head1.ev)>> \o Tail(data.items)]
       /\ lastOp' = NoOp
       /\ UNCHANGED <<provider, tables, env, pc, subs, sub, state, valid, counts, hist>>

RefreshInstance ==
    /\ pc = "delta" /\ data.items # <<>>
    /\ Head1.kind = "instance"
    /\ \E code \in Answers :
       LET inst == Head1.ev
           R == Failing(R0, code)
       IN  IF ~isInstanceOrSingle(inst)
           THEN Step(R0, Tail(data.items), hist)
           ELSE IF match(sub, inst)
           THEN Step(upsertTarget(R, sub, targetOf(sub), inst, TRUE),
                     Tail(data.items), hist)
           ELSE Step(removeTarget(R, sub, targetOf(sub), inst.id),
                     Tail(data.items), hist)

RemoveMaster ==
    /\ pc = "delta" /\ data.items # <<>>
    /\ Head1.kind = "master"
    /\ \E code \in Answers :
          Step(removeTarget(Failing(R0, code), sub, targetOf(sub), Head1.ev.id), Tail(data.items), hist)

DeltaOrdinary ==
    /\ pc = "delta" /\ data.items # <<>>
    /\ Head1.kind = "delta"
    /\ deltaBranch(sub, Head1.ev) \in {"upsert", "remove"}
    /\ \E code \in Answers :
       IF deltaBranch(sub, Head1.ev) = "upsert"
       THEN Step(upsertTarget(Failing(R0, code), sub, targetOf(sub), Head1.ev, FALSE),
                 Tail(data.items), hist)
       ELSE Step(removeTarget(Failing(R0, code), sub, targetOf(sub), Head1.ev.id),
                 Tail(data.items), hist)

\* end of a page of the change feed: the cursor is stored on the terminal page
DeltaPageEnd ==
    /\ pc = "delta" /\ data.items = <<>>
    /\ IF data.nextSyncToken # NULL
       THEN /\ subscription_state' =
                  saveState(subscription_state, sub, data.nextSyncToken, "ok")
            /\ pc' = "backfillList"
            /\ data' = NoData
       ELSE /\ UNCHANGED subscription_state
            /\ pc' = IF data.nextPageToken # <<>> THEN "listChanges" ELSE "backfillList"
            /\ data' = IF data.nextPageToken # <<>> THEN data ELSE NoData
    /\ lastOp' = NoOp
    /\ UNCHANGED <<provider, subscriptions, event_mappings, env, subs, sub,
                   state, valid, counts, hist>>

BackfillList ==
    /\ pc = "backfillList"
    /\ \E code \in Answers :
       IF code # 0 THEN CallFails(code)
       ELSE
       /\ LET full == IF data.nextPageToken = <<>> THEN WindowFeed ELSE data.nextPageToken
              page == PageOf(full)
          IN  data' = [items |-> Items("backfill", page.items),
                       nextPageToken |-> page.nextPageToken,
                       nextSyncToken |-> NULL]
       /\ pc' = "backfill"
       /\ lastOp' = NoOp
       /\ UNCHANGED <<provider, tables, env, subs, sub, state, valid, counts, hist>>

BackfillItemAll ==
    /\ pc = "backfill" /\ data.items # <<>>
    /\ \E code \in Answers :
          Step(upsertTarget(Failing(R0, code), sub, targetOf(sub), Head1.ev, FALSE),
               Tail(data.items), hist)

BackfillItem ==
    /\ pc = "backfill" /\ data.items # <<>>
    /\ \E code \in Answers :
       LET ev == Head1.ev
       IN  IF isInstanceOrSingle(ev) /\ match(sub, ev)
           THEN Step(upsertTarget(Failing(R0, code), sub, targetOf(sub), ev, FALSE),
                     Tail(data.items), hist)
           ELSE Step(R0, Tail(data.items), hist)

BackfillPageEndAgain ==
    /\ pc = "backfill" /\ data.items = <<>>
    /\ pc' = "backfillList"
    /\ data' = IF data.nextPageToken # <<>> THEN data ELSE NoData
    /\ lastOp' = NoOp
    /\ UNCHANGED <<provider, tables, env, subs, sub, state, valid, counts, hist>>

BackfillPageEnd ==
    /\ pc = "backfill" /\ data.items = <<>>
    /\ pc' = IF data.nextPageToken # <<>> THEN "backfillList" ELSE "pruneList"
    /\ data' = IF data.nextPageToken # <<>> THEN data ELSE NoData
    /\ lastOp' = NoOp
    /\ UNCHANGED <<provider, tables, env, subs, sub, state, valid, counts, hist>>

\* pruneStaleMappings: the SELECT of the mapped source ids
PruneList ==
    /\ pc = "pruneList"
    /\ LET mapped == SelectSeq(FeedOrder, LAMBDA id : id \in DOMAIN event_mappings[sub])
       IN  data' = [NoData EXCEPT !.items =
                       [i \in 1..Len(mapped) |-> Item("prune", [id |-> mapped[i]])]]
    /\ pc' = "prune"
    /\ lastOp' = NoOp
    /\ UNCHANGED <<provider, tables, env, subs, sub, state, valid, counts, hist>>

isStaleNever(subId, ev) == FALSE

isStaleNoCancelled(subId, ev) ==
    isRecurringMaster(ev) \/ ~match(subId, ev)

\* the condition of pruneStaleMappings for removing the mirror of a source
\* event that events.get returned
isStaleNoMaster(subId, ev) ==
    ev.status = "cancelled" \/ ~match(subId, ev)

isStale(subId, ev) ==
    ev.status = "cancelled" \/ isRecurringMaster(ev) \/ ~match(subId, ev)

PruneItem ==
    /\ pc = "prune" /\ data.items # <<>>
    /\ \/ \* events.get throws something other than 404
          \E code \in Answers \ {0} : CallFails(code)
       \/ \E code \in Answers :
          LET source_id == Head1.ev.id
              ev == Ev(source_id)
              R == Failing(R0, code)
          IN  IF ev.status = "none"
              THEN \* events.get answers 404
                   Step(removeTarget(R, sub, targetOf(sub), source_id),
                        Tail(data.items), hist)
              ELSE IF isStale(sub, ev)
              THEN Step(removeTarget(R, sub, targetOf(sub), source_id),
                        Tail(data.items), hist)
              ELSE Step(R0, Tail(data.items), hist)

\* dedupeTarget: the SELECT of the mapped target ids
DedupStart ==
    /\ pc = "prune" /\ data.items = <<>>
    /\ valid' = { event_mappings[sub][x].target_id : x \in DOMAIN event_mappings[sub] }
    /\ data' = NoData
    /\ pc' = "dedupList"
    /\ lastOp' = NoOp
    /\ UNCHANGED <<provider, tables, env, subs, sub, state, counts, hist>>

DedupList ==
    /\ pc = "dedupList"
    /\ \E code \in Answers :
       IF code # 0 THEN CallFails(code)
       ELSE
       /\ LET full == IF data.nextPageToken = <<>>
                      THEN TargetFeed(target, targetOf(sub)) ELSE data.nextPageToken
              page == PageOf(full)
          IN  data' = [items |-> Items("dedup", page.items),
                       nextPageToken |-> page.nextPageToken,
                       nextSyncToken |-> NULL]
       /\ pc' = "dedup"
       /\ lastOp' = NoOp
       /\ UNCHANGED <<provider, tables, env, subs, sub, state, valid, counts, hist>>

isOrphanMatchOnly(subId, ev, isMapped) == ~isMapped /\ match(subId, ev)

isOrphanNoMatch(subId, ev, isMapped) == ~isMapped

isOrphanNever(subId, ev, isMapped) == FALSE

isOrphanMappedToo(subId, ev, isMapped) ==
    ~DEDUP_MATCH_FILTERS_ONLY \/ match(subId, ev)

\* the condition of dedupeTarget for deleting an event of the target
isOrphan(subId, ev, isMapped) ==
    ~isMapped /\ (~DEDUP_MATCH_FILTERS_ONLY \/ match(subId, ev))

DedupItem ==
    /\ pc = "dedup" /\ data.items # <<>>
    /\ LET ev == Head1.ev
           id == ev.id
           isMapped == id \in valid
       IN  IF isOrphan(sub, ev, isMapped)
           THEN \E code \in Answers :
                IF code # 0
                THEN \* events.delete throws something other than 404
                     Step([R0 EXCEPT !.err = code, !.fail = code,
                                     !.op = Op("dedup", "", id, "", code)],
                          Tail(data.items), hist)
                ELSE
                IF id \in DOMAIN target[targetOf(sub)]
                THEN Step([R0 EXCEPT !.t = deleteEvent(@, targetOf(sub), id),
                                     !.op = Op("dedup", "", id, "", 0),
                                     !.removed = @ + 1],
                          Tail(data.items),
                          [hist EXCEPT !.deduped = @ \cup {ev.origin}])
                ELSE \* events.delete answers 404: not counted
                     Step([R0 EXCEPT !.op = Op("dedup", "", id, "", 404)],
                          Tail(data.items), hist)
           ELSE Step(R0, Tail(data.items), hist)

DedupPageEnd ==
    /\ pc = "dedup" /\ data.items = <<>>
    /\ pc' = IF data.nextPageToken # <<>> THEN "dedupList" ELSE "finish"
    /\ data' = IF data.nextPageToken # <<>> THEN data ELSE NoData
    /\ lastOp' = NoOp
    /\ UNCHANGED <<provider, tables, env, subs, sub, state, valid, counts, hist>>

\* the end of runSubscription: log and saveState({last_status: "ok"})
Finish ==
    /\ pc = "finish"
    /\ subscription_state' = saveState(subscription_state, sub, NULL, "ok")
    /\ pc' = "runAll"
    /\ Return
    /\ hist' = [hist EXCEPT !.done[sub] = 1,
                            !.ended[sub] = "ok",
                            !.cancelSeen = {}, !.deduped = {},
                            !.expect = NoExpect]
    /\ lastOp' = NoOp
    /\ UNCHANGED <<provider, subscriptions, event_mappings, env, subs>>

(***************************************************************************)
(* update-subscription-courses.js: the filter-edit operations.             *)
(***************************************************************************)
splitKeywords(raw) ==
    SelectSeq(Map(trim, split(raw, ",")), LAMBDA k : k # <<>>)

RECURSIVE uniquePreserveOrder(_)
uniquePreserveOrder(arr) ==
    IF arr = <<>> THEN <<>>
    ELSE LET init == uniquePreserveOrder(SubSeq(arr, 1, Len(arr) - 1))
             v == arr[Len(arr)]
         IN  IF \E i \in 1..Len(init) : normalize(init[i]) = normalize(v)
             THEN init ELSE Append(init, v)

doReplace(row, filterType, values) ==
    IF filterType = "regex"
    THEN [row EXCEPT !.filter_type = "regex", !.filters_raw = join(values, <<" ">>)]
    ELSE [row EXCEPT !.filter_type = "keywords",
                     !.filters_raw = join(uniquePreserveOrder(values), <<",">>)]

doAppend(row, values) ==
    LET existing == splitKeywords(row.filters_raw)
        merged == uniquePreserveOrder(existing \o values)
    IN  [row EXCEPT !.filter_type = "keywords", !.filters_raw = join(merged, <<",">>)]

doRemove(row, removeValues) ==
    LET existing == splitKeywords(row.filters_raw)
        removeSet == { normalize(removeValues[i]) : i \in 1..Len(removeValues) }
        kept == SelectSeq(existing, LAMBDA kw : normalize(kw) \notin removeSet)
    IN  IF existing = <<>>
        THEN [row EXCEPT !.filter_type = "keywords", !.filters_raw = <<>>]
        ELSE [row EXCEPT !.filter_type = "keywords", !.filters_raw = join(kept, <<",">>)]

clearSyncTokenStatusOnly(ss, subId) ==
    [ss EXCEPT ![subId] =
        [sync_token |-> @.sync_token, last_run_at |-> "NULL",
         last_status |-> "NULL"]]

clearSyncToken(ss, subId) ==
    [ss EXCEPT ![subId] =
        [sync_token |-> NULL, last_run_at |-> "NULL", last_status |-> "NULL"]]

wipeMappings(m, subId) == [m EXCEPT ![subId] = <<>>]

\* main of update-subscription-courses.js in argv mode
UpdateFilters(subId, mode, values, resync) ==
    /\ pc = "idle"
    /\ hist.edits < hist.budget.edits
    /\ subscriptions[subId].is_enabled
    /\ mode \in {"append", "remove"} => subscriptions[subId].filter_type # "regex"
    /\ subscriptions' = [subscriptions EXCEPT ![subId] =
            CASE mode = "remove" -> doRemove(@, values)
              [] mode = "append" -> doAppend(@, values)
              [] mode = "regex"  -> doReplace(@, "regex", values)
              [] OTHER           -> doReplace(@, "keywords", values)]
    /\ subscription_state' = clearSyncToken(subscription_state, subId)
    /\ event_mappings' = IF resync THEN wipeMappings(event_mappings, subId)
                         ELSE event_mappings
    /\ hist' = [hist EXCEPT !.edits = @ + 1, !.done = NoRuns, !.ended = NoEnd,
                            !.edit = IF resync THEN "wiped" ELSE "kept",
                            !.wiped = @ \/ resync]
    /\ lastOp' = NoOp
    /\ UNCHANGED <<provider, env, worker>>

(***************************************************************************)
(* The environment: the owner of the source calendar edits it, somebody    *)
(* edits a target calendar by hand, the worker process dies.               *)
(***************************************************************************)
\* the events the owner of the source calendar edits
EditableIds == {"s1", "m1", "m1_1"}

Editable(id) ==
    IF IsOccurrence(id)
    THEN source[MasterOf(id)].status = "confirmed"
         /\ source[id].status \in {"inherit", "confirmed"}
    ELSE source[id].status = "confirmed"

\* the event is edited; content = the old content is a touch of a field
\* that is not mirrored
SourceEdit(id, content) ==
    /\ pc = "idle"
    /\ srcVer < hist.budget.ver
    /\ id \in EditableIds
    /\ Editable(id)
    /\ source' = [source EXCEPT ![id] =
            [status |-> "confirmed", content |-> content, etag |-> srcVer + 1]]
    /\ srcVer' = srcVer + 1
    /\ hist' = [hist EXCEPT !.done = NoRuns, !.ended = NoEnd]
    /\ lastOp' = NoOp
    /\ UNCHANGED <<target, tables, env, worker>>

SourceCancel(id) ==
    /\ pc = "idle"
    /\ srcVer < hist.budget.ver
    /\ id \in EditableIds
    /\ Editable(id)
    /\ source' = [source EXCEPT ![id] =
            [status |-> "cancelled", content |-> Stored(source, id).content,
             etag |-> srcVer + 1]]
    /\ srcVer' = srcVer + 1
    /\ hist' = [hist EXCEPT !.done = NoRuns, !.ended = NoEnd]
    /\ lastOp' = NoOp
    /\ UNCHANGED <<target, tables, env, worker>>

\* the provider forgets the tombstone of a deleted event
SourcePurge(id) ==
    /\ pc = "idle"
    /\ ~IsOccurrence(id)
    /\ source[id].status = "cancelled"
    /\ source' = [source EXCEPT ![id].status = "none"]
    /\ hist' = [hist EXCEPT !.done = NoRuns, !.ended = NoEnd]
    /\ lastOp' = NoOp
    /\ UNCHANGED <<srcVer, target, tables, env, worker>>

UsedCals == { subscriptions[s].target_calendar_id :
                 s \in { x \in Subs : subscriptions[x].is_enabled } }

\* somebody enters an event into a target calendar by hand
OutsideAdd(cal, content) ==
    /\ pc = "idle"
    /\ hist.outside < hist.budget.outside
    /\ cal \in UsedCals
    /\ FreeIds(R0) # {}
    /\ LET id == CHOOSE i \in FreeIds(R0) : \A j \in FreeIds(R0) : i <= j
           ev == [Contents[content] EXCEPT !.summary = @] @@
                 [start |-> DateTime(Now), end |-> DateTime(Now),
                  reminders |-> Undefined,
                  transparency |-> Undefined]
       IN  target' = [target EXCEPT ![cal] =
               Put(@, id, TargetEvent(id, buildPayloadFromSource(ev), ""))]
    /\ hist' = [hist EXCEPT !.outside = @ + 1, !.done = NoRuns, !.ended = NoEnd]
    /\ lastOp' = NoOp
    /\ UNCHANGED <<source, srcVer, tables, env, worker>>

\* somebody deletes an event of a target calendar by hand
OutsideDelete(cal, id) ==
    /\ pc = "idle"
    /\ hist.outside < hist.budget.outside
    /\ cal \in UsedCals
    /\ id \in DOMAIN target[cal]
    /\ target' = [target EXCEPT ![cal] = Remove(@, id)]
    /\ hist' = [hist EXCEPT !.outside = @ + 1, !.done = NoRuns, !.ended = NoEnd]
    /\ lastOp' = NoOp
    /\ UNCHANGED <<source, srcVer, tables, env, worker>>

\* somebody deletes by hand, while the dedup pass runs, the event the pass is
\* about to delete; the only outside edit of the behaviour
OutsideDeleteListed ==
    /\ pc = "dedup" /\ data.items # <<>>
    /\ hist.outside = 0
    /\ isOrphan(sub, Head1.ev, Head1.ev.id \in valid)
    /\ Head1.ev.id \in DOMAIN target[targetOf(sub)]
    /\ target' = [target EXCEPT ![targetOf(sub)] = Remove(@, Head1.ev.id)]
    /\ hist' = [hist EXCEPT !.outside = @ + 1]
    /\ UNCHANGED <<source, srcVer, tables, env, worker, lastOp>>

\* the refresh token of a subscription is removed from the token store
RemoveToken(subId) ==
    /\ pc = "idle"
    /\ tokens[subId]
    /\ Cardinality({ s \in Subs : ~tokens[s] }) < hist.budget.tokens
    /\ tokens' = [tokens EXCEPT ![subId] = FALSE]
    /\ hist' = [hist EXCEPT !.done = NoRuns, !.ended = NoEnd]
    /\ lastOp' = NoOp
    /\ UNCHANGED <<provider, tables, DEDUP_MATCH_FILTERS_ONLY, BACKFILL_AHEAD_DAYS,
                   peer, args, result,
                   worker>>

(***************************************************************************)
(* The rest of a run as one computation: what the passes do from a point   *)
(* of the run on when no call fails. Used to say what an interrupted run   *)
(* would have produced.                                                    *)
(***************************************************************************)
RECURSIVE BackfillRest(_, _, _)
\* the loop of backfillWindow over the events still to come
BackfillRest(R, subId, evs) ==
    IF evs = <<>> \/ R.err # 0 THEN R
    ELSE LET ev == Head(evs)
         IN  BackfillRest(IF isInstanceOrSingle(ev) /\ match(subId, ev)
                          THEN upsertTarget(R, subId, targetOf(subId), ev, FALSE)
                          ELSE R,
                          subId, Tail(evs))

RECURSIVE PruneRest(_, _, _)
\* the loop of pruneStaleMappings over the source ids still to come
PruneRest(R, subId, ids) ==
    IF ids = <<>> \/ R.err # 0 THEN R
    ELSE LET ev == Ev(Head(ids))
         IN  PruneRest(IF ev.status = "none" \/ isStale(subId, ev)
                       THEN removeTarget(R, subId, targetOf(subId), Head(ids))
                       ELSE R,
                       subId, Tail(ids))

RECURSIVE DedupRest(_, _, _, _)
\* the loop of dedupeTarget over the target events still to come
DedupRest(R, subId, validIds, evs) ==
    IF evs = <<>> \/ R.err # 0 THEN R
    ELSE LET ev == Head(evs)
         IN  DedupRest(IF /\ isOrphan(subId, ev, ev.id \in validIds)
                          /\ ev.id \in DOMAIN R.t[targetOf(subId)]
                       THEN [R EXCEPT !.t = deleteEvent(@, targetOf(subId), ev.id),
                                      !.removed = @ + 1]
                       ELSE R,
                       subId, validIds, Tail(evs))

PruneAll(R, subId) ==
    PruneRest(R, subId,
              SelectSeq(FeedOrder, LAMBDA id : id \in DOMAIN R.m[subId]))

DedupAll(R, subId) ==
    DedupRest(R, subId,
              { R.m[subId][x].target_id : x \in DOMAIN R.m[subId] },
              TargetFeed(R.t, targetOf(subId)))

Evs(items) == [i \in 1..Len(items) |-> items[i].ev]
Ids(items) == [i \in 1..Len(items) |-> items[i].ev.id]

\* the listing a pass is in: its first request is still to come, or the
\* page token stands for the rest
Listing(d, first) == IF d.nextPageToken = <<>> THEN first ELSE d.nextPageToken

\* runSubscription from the backfill pass on, from the point p of the run
\* with the page d, the tables and the target of R and the mapped ids v
RestOfRunAt(p, d, R, v) ==
    CASE p = "backfillList" ->
           DedupAll(PruneAll(BackfillRest(R, sub, Listing(d, WindowFeed)), sub), sub)
      [] p = "backfill" ->
           DedupAll(PruneAll(BackfillRest(R, sub,
                        Evs(d.items) \o d.nextPageToken), sub), sub)
      [] p = "pruneList" -> DedupAll(PruneAll(R, sub), sub)
      [] p = "prune" -> DedupAll(PruneRest(R, sub, Ids(d.items)), sub)
      [] p = "dedupList" ->
           DedupRest(R, sub, v, Listing(d, TargetFeed(R.t, targetOf(sub))))
      [] p = "dedup" ->
           DedupRest(R, sub, v, Evs(d.items) \o d.nextPageToken)
      [] OTHER -> R

RestOfRun == RestOfRunAt(pc, data, R0, valid)

\* the mapping rows of the running subscription and its target calendar
Outcome(R) == [m |-> R.m[sub], t |-> R.t[targetOf(sub)]]

BetweenPasses ==
    \/ pc = "backfillList" /\ data = NoData
    \/ pc = "pruneList"
    \/ pc = "prune" /\ data.items = <<>>

\* the worker process dies between two passes of a run
KillBetweenPasses ==
    /\ sub # ""
    /\ BetweenPasses
    /\ hist.crash < hist.budget.crash
    /\ pc' = "idle"
    /\ subs' = <<>>
    /\ Return
    /\ lastOp' = NoOp
    /\ hist' = [hist EXCEPT !.crash = @ + 1, !.done = NoRuns, !.ended = NoEnd,
                            !.cancelSeen = {}, !.deduped = {}, !.batch = <<>>,
                            !.expect = [set |-> TRUE, sub |-> sub,
                                        at |-> pc,
                                        m |-> Outcome(RestOfRun).m,
                                        t |-> Outcome(RestOfRun).t,
                                        source |-> source,
                                        edits |-> hist.edits]]
    /\ UNCHANGED <<provider, tables, env>>

\* the event the next step hands to upsertTarget, if it does
UpsertPending ==
    /\ pc \in {"delta", "backfill"}
    /\ data.items # <<>>
    /\ Head1.kind \in {"delta", "instance", "backfill"}
    /\ Head1.ev.status # "cancelled"
    /\ isInstanceOrSingle(Head1.ev)
    /\ match(sub, Head1.ev)

\* the worker process dies in upsertTarget between events.insert and the
\* INSERT of the mapping row
CrashAfterInsert ==
    /\ UpsertPending
    /\ hist.crash < hist.budget.crash
    /\ Head1.ev.id \notin DOMAIN event_mappings[sub]
    /\ LET R == upsertTarget(R0, sub, targetOf(sub), Head1.ev, FALSE)
       IN  /\ R.err = 0
           /\ target' = R.t
           /\ lastOp' = R.op
    /\ pc' = "idle"
    /\ subs' = <<>>
    /\ Return
    /\ hist' = [hist EXCEPT !.crash = @ + 1, !.done = NoRuns, !.ended = NoEnd,
                            !.cancelSeen = {}, !.deduped = {}, !.batch = <<>>,
                            !.orphaned = @ \cup {Head1.ev.id}]
    /\ UNCHANGED <<source, srcVer, tables, env>>

(***************************************************************************)
(* The specification.                                                      *)
(***************************************************************************)
\* what the environment does in one behaviour: source edits only, or one
\* source edit together with filter edits or outside edits
Budgets ==
    { [ver |-> MaxVer, edits |-> 0, outside |-> 0, crash |-> 0, faults |-> 0, tokens |-> 0],
      [ver |-> 1, edits |-> MaxFilterEdits, outside |-> 0, crash |-> 0, faults |-> 0, tokens |-> 0],
      [ver |-> 1, edits |-> 0, outside |-> MaxOutside, crash |-> 0, faults |-> 0, tokens |-> 0] }

\* ... or one source edit and one filter edit together with crashes
CrashBudgets ==
    { [ver |-> 1, edits |-> 1, outside |-> 0, crash |-> MaxCrash, faults |-> 0, tokens |-> 0] }

\* no function is called on its own
NoArgs == [op |-> "none"]
NoResult == [op |-> "none"]

\* the state before a batch run, the tables holding these mappings and this
\* cursor of subscription A, the target calendars these events, and the
\* subscriptions writing to these target calendars
\* no second worker process has been started
NoPeer == [at |-> "none", sub |-> "", ev |-> [id |-> ""], target_id |-> 0]

InitState(budgets, aheadDays, enabled, mappings, events, cursor, calOf) ==
    /\ source = [id \in SourceIds |->
                    [status  |-> IF IsOccurrence(id) THEN "inherit" ELSE "confirmed",
                     content |-> 1, etag |-> 0]]
    /\ srcVer = 0
    /\ target = events
    /\ subscriptions =
          [s \in Subs |->
              [is_enabled |-> s \in enabled,
               target_calendar_id |-> calOf[s],
               filter_type |-> "keywords",
               filters_raw |-> <<"a">>]]
    /\ subscription_state =
          [s \in Subs |->
              IF s = "A" /\ cursor # NULL
              THEN [sync_token |-> cursor, last_run_at |-> "set", last_status |-> "ok"]
              ELSE [sync_token |-> NULL, last_run_at |-> "NULL", last_status |-> "NULL"]]
    /\ event_mappings = mappings
    /\ DEDUP_MATCH_FILTERS_ONLY \in BOOLEAN
    /\ BACKFILL_AHEAD_DAYS \in aheadDays
    /\ tokens = [s \in Subs |-> TRUE]
    /\ pc = "idle"
    /\ subs = <<>>
    /\ sub = ""
    /\ state = NULL
    /\ data = NoData
    /\ valid = {}
    /\ counts = NoCounts
    /\ peer = NoPeer
    /\ lastOp = NoOp
    /\ \E b \in budgets :
          hist = [done |-> NoRuns, ended |-> NoEnd, cancelSeen |-> {},
                  deduped |-> {}, crash |-> 0, outside |-> 0, faults |-> 0,
                  batch |-> <<>>, orphaned |-> {}, expect |-> NoExpect,
                  edits |-> 0, edit |-> "none", wiped |-> FALSE, budget |-> b]

\* each subscription has a target calendar of its own
OwnCalendar == [s \in Subs |-> IF s = "A" THEN "t1" ELSE "t2"]

\* the state after the subscriptions were added, before the first run
InitProgram(budgets, aheadDays, enabled) ==
    InitState(budgets, aheadDays, enabled,
              [s \in Subs |-> <<>>], [c \in TargetCals |-> <<>>], NULL, OwnCalendar)

InitWith(budgets, aheadDays, enabled) ==
    /\ InitProgram(budgets, aheadDays, enabled)
    /\ args = NoArgs
    /\ result = NoResult

Engine ==
    \/ RunAll \/ RunAllDone \/ RunSubscription
    \/ ListChanges \/ DeltaCancelled \/ DeltaMaster \/ RefreshInstance
    \/ RemoveMaster \/ DeltaOrdinary \/ DeltaPageEnd
    \/ BackfillList \/ BackfillItem \/ BackfillPageEnd
    \/ PruneList \/ PruneItem
    \/ DedupStart \/ DedupList \/ DedupItem \/ DedupPageEnd
    \/ Finish

Environment ==
    \/ \E id \in SourceIds, c \in ContentIds : SourceEdit(id, c)
    \/ \E id \in SourceIds : SourceCancel(id)
    \/ \E id \in SourceIds : SourcePurge(id)
    \/ \E s \in Subs, mode \in {"replace", "regex", "append", "remove"},
          v \in FilterValues, resync \in BOOLEAN :
          UpdateFilters(s, mode, <<v>>, resync)
    \/ \E cal \in TargetCals, c \in ContentIds : OutsideAdd(cal, c)
    \/ \E cal \in TargetCals, id \in TargetIds : OutsideDelete(cal, id)
    \/ OutsideDeleteListed

\* the backfill window ends before or after the last occurrence of the series
AheadDays == {1, 2}

Init == InitWith(Budgets, AheadDays, {"A"})

Next == Engine \/ Environment

\* the worker runs to the end of every run it starts
Spec == Init /\ [][Next]_vars

\* with a backfill window that covers every event
InitCrash == InitWith(CrashBudgets, {2}, {"A"})

NextCrash ==
    \/ Engine
    \/ \E id \in SourceIds, c \in ContentIds : SourceEdit(id, c)
    \/ \E id \in SourceIds : SourceCancel(id)
    \/ \E id \in SourceIds : SourcePurge(id)
    \/ \E s \in Subs, mode \in {"replace", "regex", "append", "remove"},
          v \in FilterValues, resync \in BOOLEAN :
          UpdateFilters(s, mode, <<v>>, resync)
    \/ CrashAfterInsert

\* the worker may die in the middle of a run
SpecCrash == InitCrash /\ [][NextCrash]_vars

\* one source edit and one filter edit together with interruptions, with a
\* backfill window that ends before the last occurrence of the series
KillBudgets ==
    { [ver |-> 1, edits |-> 1, outside |-> 0, crash |-> MaxCrash,
       faults |-> 0, tokens |-> 0] }

InitKill == InitWith(KillBudgets, {1}, {"A"})

NextKill ==
    \/ Engine
    \/ \E id \in SourceIds, c \in ContentIds : SourceEdit(id, c)
    \/ \E id \in SourceIds : SourceCancel(id)
    \/ \E id \in SourceIds : SourcePurge(id)
    \/ \E s \in Subs, mode \in {"replace", "regex", "append", "remove"},
          v \in FilterValues, resync \in BOOLEAN :
          UpdateFilters(s, mode, <<v>>, resync)
    \/ KillBetweenPasses

\* the worker may die between two passes of a run
SpecKill == InitKill /\ [][NextKill]_vars

(***************************************************************************)
(* The source calendar and the filter tool do not wait for the worker:     *)
(* they act while a run is between two passes.                             *)
(***************************************************************************)
\* the owner of the source calendar edits an event after the delta pass of
\* the run has read the change feed
SourceEditMidRun(id, content) ==
    /\ sub # "" /\ pc = "backfillList" /\ data = NoData
    /\ srcVer < hist.budget.ver
    /\ id \in EditableIds
    /\ Editable(id)
    /\ source' = [source EXCEPT ![id] =
            [status |-> "confirmed", content |-> content, etag |-> srcVer + 1]]
    /\ srcVer' = srcVer + 1
    /\ lastOp' = NoOp
    /\ UNCHANGED <<target, tables, env, worker, hist>>

\* the filter tool is run on the subscription while the delta pass of its run
\* is in progress: it stores the keywords the subscription has already and
\* clears the cursor
UpdateFiltersMidRun(subId, values) ==
    /\ sub = subId /\ pc \in {"listChanges", "delta"}
    /\ hist.edits < hist.budget.edits
    /\ doReplace(subscriptions[subId], "keywords", values) = subscriptions[subId]
    /\ subscription_state' = clearSyncToken(subscription_state, subId)
    /\ hist' = [hist EXCEPT !.edits = @ + 1, !.edit = "raced"]
    /\ lastOp' = NoOp
    /\ UNCHANGED <<provider, subscriptions, event_mappings, env, worker>>

RaceBudgets ==
    { [ver |-> MaxVer, edits |-> 1, outside |-> 0, crash |-> 0,
       faults |-> 0, tokens |-> 0] }

InitRace == InitWith(RaceBudgets, AheadDays, {"A"})

NextRace ==
    \/ Engine
    \/ \E id \in SourceIds, c \in ContentIds : SourceEdit(id, c)
    \/ \E id \in SourceIds : SourceCancel(id)
    \/ \E id \in SourceIds, c \in ContentIds : SourceEditMidRun(id, c)
    \/ \E s \in Subs, v \in FilterValues : UpdateFiltersMidRun(s, <<v>>)

SpecRace == InitRace /\ [][NextRace]_vars

(***************************************************************************)
(* A legacy state: a version of the worker that mirrored recurring masters *)
(* has left the mapping and the target copy of the master m1, and either   *)
(* no cursor or the cursor of its last run.                                *)
(***************************************************************************)
Legacy ==
    LET src == [id \in SourceIds |->
                  [status  |-> IF IsOccurrence(id) THEN "inherit" ELSE "confirmed",
                   content |-> 1, etag |-> 0]]
        ev == EvOf(src, "m1")
        payload == buildPayloadFromSource(ev)
    IN  [m |-> [s \in Subs |->
                  IF s = "A"
                  THEN Put(<<>>, "m1", [target_id |-> 1, etag |-> ev.etag,
                                        fingerprint |-> fingerprintOfPayload(payload)])
                  ELSE <<>>],
         t |-> [c \in TargetCals |->
                  IF c = "t1" THEN Put(<<>>, 1, TargetEvent(1, payload, "m1"))
                  ELSE <<>>]]

InitLegacy ==
    /\ \E cursor \in {NULL, 0} :
          InitState(RaceBudgets, AheadDays, {"A"}, Legacy.m, Legacy.t, cursor,
                    OwnCalendar)
    /\ args = NoArgs
    /\ result = NoResult

SpecLegacy == InitLegacy /\ [][NextRace]_vars

(***************************************************************************)
(* Two enabled subscriptions of two users that mirror the same source      *)
(* calendar into the same target calendar.                                 *)
(***************************************************************************)
SharedCalendar == [s \in Subs |-> "t1"]

(***************************************************************************)
(* A second worker process that runs the same subscription at the same     *)
(* time (two cron invocations that overlap).  It has read the same cursor  *)
(* and receives the same change feed; its run is followed through the call *)
(* of upsertTarget for one item of the feed, one step for each point where *)
(* the function gives up control, in the schedules where its INSERT comes  *)
(* after the INSERT of the first process.                                  *)
(***************************************************************************)
SameKey(r, q) ==
    r.subscription_id = q.subscription_id /\ r.source_id = q.source_id

insertMappingNoKey(rows, row) == [rows |-> rows \cup {row}, threw |-> FALSE]

\* INSERT INTO event_mappings ... VALUES (...): the primary key refuses a
\* second row with the key of a row of the table
insertMapping(rows, row) ==
    IF \E r \in rows : SameKey(r, row)
    THEN [rows |-> rows, threw |-> TRUE]
    ELSE [rows |-> rows \cup {row}, threw |-> FALSE]

\* INSERT ... ON CONFLICT(subscription_id, source_id) DO UPDATE SET ...
upsertMapping(rows, row) ==
    [rows |-> { r \in rows : ~SameKey(r, row) } \cup {row}, threw |-> FALSE]


\* the rows of table event_mappings
TableRows(m) ==
    UNION { { [subscription_id |-> s, source_id |-> x,
               target_id |-> m[s][x].target_id, etag |-> m[s][x].etag,
               fingerprint |-> m[s][x].fingerprint] : x \in DOMAIN m[s] } : s \in Subs }

\* upsertTarget of the second process: the SELECT finds no mapping row
PeerSelect ==
    /\ peer.at = "none"
    /\ sub # "" /\ pc = "delta" /\ data.items # <<>>
    /\ Head1.kind = "delta"
    /\ deltaBranch(sub, Head1.ev) = "upsert"
    /\ Head1.ev.id \notin DOMAIN event_mappings[sub]
    /\ peer' = [at |-> "selected", sub |-> sub, ev |-> Head1.ev, target_id |-> 0]
    /\ lastOp' = NoOp
    /\ UNCHANGED <<provider, tables, DEDUP_MATCH_FILTERS_ONLY, BACKFILL_AHEAD_DAYS,
                   tokens, args, result, worker, hist>>

\* upsertTarget of the second process: events.insert answers
PeerInsert ==
    /\ peer.at = "selected"
    /\ FreeIds(R0) # {}
    /\ LET id == CHOOSE i \in FreeIds(R0) : \A j \in FreeIds(R0) : i <= j
           cal == targetOf(peer.sub)
       IN  /\ target' = [target EXCEPT ![cal] =
                            Put(@, id, TargetEvent(id, buildPayloadFromSource(peer.ev),
                                                   peer.ev.id))]
           /\ peer' = [peer EXCEPT !.at = "inserted", !.target_id = id]
           /\ lastOp' = NoOp
    /\ UNCHANGED <<source, srcVer, tables, DEDUP_MATCH_FILTERS_ONLY,
                   BACKFILL_AHEAD_DAYS, tokens, args, result, worker, hist>>

\* upsertTarget of the second process: the plain INSERT meets the row of the
\* first process and throws; the catch of its runSubscription stores the
\* status error and its run is over
PeerMappingThrows ==
    /\ peer.at = "inserted"
    /\ insertMapping(TableRows(event_mappings),
                     [subscription_id |-> peer.sub, source_id |-> peer.ev.id,
                      target_id |-> peer.target_id, etag |-> peer.ev.etag,
                      fingerprint |->
                          fingerprintOfPayload(buildPayloadFromSource(peer.ev))]).threw
    /\ subscription_state' = saveState(subscription_state, peer.sub, NULL, "error")
    /\ peer' = [peer EXCEPT !.at = "done"]
    /\ lastOp' = NoOp
    /\ UNCHANGED <<provider, subscriptions, event_mappings, DEDUP_MATCH_FILTERS_ONLY,
                   BACKFILL_AHEAD_DAYS, tokens, args, result, worker, hist>>

(***************************************************************************)
(* The worker is run again and again (the cron job): a batch that can      *)
(* start does start, and a run that has started goes on to its end.        *)
(***************************************************************************)
InitRecover ==
    InitWith({ [ver |-> 1, edits |-> 0, outside |-> MaxOutside, crash |-> 0,
                faults |-> 0, tokens |-> 0] }, AheadDays, {"A"})

NextRecover ==
    \/ Engine
    \/ \E id \in SourceIds, c \in ContentIds : SourceEdit(id, c)
    \/ \E id \in SourceIds : SourceCancel(id)
    \/ \E cal \in TargetCals, id \in TargetIds : OutsideDelete(cal, id)

SpecRecover == InitRecover /\ [][NextRecover]_vars /\ WF_vars(Engine)

InitOverlap ==
    /\ InitState({ [ver |-> 1, edits |-> 1, outside |-> 0, crash |-> 0,
                    faults |-> 0, tokens |-> 0] }, AheadDays, {"A"},
                 [s \in Subs |-> <<>>], [c \in TargetCals |-> <<>>], NULL,
                 OwnCalendar)
    /\ args = NoArgs
    /\ result = NoResult

InitShared ==
    /\ InitState({ [ver |-> 1, edits |-> 1, outside |-> 0, crash |-> 0,
                    faults |-> 0, tokens |-> 0] }, AheadDays, {"A", "B"},
                 [s \in Subs |-> <<>>], [c \in TargetCals |-> <<>>], NULL,
                 SharedCalendar)
    /\ args = NoArgs
    /\ result = NoResult

NextOverlap == NextRace \/ PeerSelect \/ PeerInsert \/ PeerMappingThrows

SpecOverlap == InitOverlap /\ [][NextOverlap]_vars

SpecShared == InitShared /\ [][NextRace]_vars

(***************************************************************************)
(* fingerprintOfPayload(buildPayloadFromSource(ev)) on its own, for two    *)
(* events of the source.                                                   *)
(***************************************************************************)
\* the events of the source the function is called with: the mirrored
\* fields, the etag and a field that is not mirrored
FpSummaries == { Undefined, <<"A'">>, <<"B">> }
FpDescriptions == { Undefined, <<"B">> }
FpLocations == { Undefined, <<"b">> }
FpStarts == { DateTime(1), <<"timeZone", 0, "dateTime", 1>>, DateTime(3),
              <<"date", 1>> }
FpEnds == { DateTime(1), <<"timeZone", 0, "dateTime", 1>> }
FpReminders == { Undefined, <<"useDefault", 1>>,
                 <<"useDefault", 0, "overrides", 10>>,
                 <<"overrides", 10, "useDefault", 0>>,
                 <<"useDefault", 1, "overrides", 10>> }
FpTransparencies == { Undefined, <<"o", "p", "a", "q", "u", "e">>,
                      <<"t", "r", "a", "n", "s", "p", "a", "r", "e", "n", "t">> }

FpEvents ==
    [etag : {0, 1}, colorId : {0, 1}, summary : FpSummaries,
     description : FpDescriptions, location : FpLocations,
     start : FpStarts, end : FpEnds, reminders : FpReminders,
     transparency : FpTransparencies]

\* the first event of a call
FpFirst ==
    { e \in FpEvents :
        /\ e.etag = 0 /\ e.colorId = 0
        /\ e.summary = <<"A'">> /\ e.description = Undefined
        /\ e.location = Undefined
        /\ e.start = DateTime(1) /\ e.end = DateTime(1)
        /\ e.reminders \in { Undefined, <<"useDefault", 1>>,
                              <<"useDefault", 0, "overrides", 10>> }
        /\ e.transparency = Undefined }

\* the rules and the events the matcher is called with
MatchRules ==
    { <<>>, <<",">>, <<"a">>, <<"A'">>, <<" ", ",", "b">>,
      <<"a", ",", "b">>, <<"a", " ", "b">>, <<"a", "\t", " ", "B">>,
      <<"c", ",", ",", " ", "B", " ">>, <<"b", "a">> }

MatchEvents ==
    [summary : { Undefined, <<"A'">>, <<"a">>, <<"c", " ", "A">> },
     description : { Undefined, <<>>, <<"b">>, <<" ", "B">> },
     location : { Undefined, <<"b">>, <<"a", "\t", "b">> }]

(***************************************************************************)
(* The mapping writes of upsertTarget on the table event_mappings itself:  *)
(* a set of rows under PRIMARY KEY (subscription_id, source_id).           *)
(***************************************************************************)

mappingWrite(kind, rows, row) ==
    IF kind = "insert" THEN insertMapping(rows, row) ELSE upsertMapping(rows, row)

MappingRows ==
    [subscription_id : {"A", "B"}, source_id : {"s1", "m1_1"},
     target_id : {1, 2}, etag : {0, 1}, fingerprint : {1}]

\* the tables the writes are applied to: at most two rows, no two of them
\* with the same key
MappingTables ==
    { t \in { {} } \cup { {r} : r \in MappingRows }
                    \cup { {r, q} : r \in MappingRows, q \in MappingRows } :
        \A r \in t, q \in t : SameKey(r, q) => r = q }

\* nothing else happens
NoBudgets ==
    { [ver |-> 0, edits |-> 0, outside |-> 0, crash |-> 0,
       faults |-> 0, tokens |-> 0] }

InitPure ==
    /\ InitProgram(NoBudgets, {2}, {"A"})
    /\ args \in [op : {"fingerprint"}, e1 : FpFirst, e2 : FpEvents]
                   \cup [op : {"match"}, rule : MatchRules, ev : MatchEvents]
                   \cup [op : {"write"}, kind : {"insert", "upsert"},
                         rows : MappingTables, row : MappingRows]
    /\ result = NoResult

\* the fingerprints of the two events
Fingerprint ==
    /\ args.op = "fingerprint"
    /\ result = NoResult
    /\ result' = [op |-> "fingerprint",
                  a |-> fingerprintOfPayload(buildPayloadFromSource(args.e1)),
                  b |-> fingerprintOfPayload(buildPayloadFromSource(args.e2))]
    /\ UNCHANGED <<provider, tables, DEDUP_MATCH_FILTERS_ONLY,
                   BACKFILL_AHEAD_DAYS, tokens, peer, args, worker, lastOp, hist>>

\* the matcher of a keywords rule, called with an event
Match ==
    /\ args.op = "match"
    /\ result = NoResult
    /\ result' = [op |-> "match",
                  match |-> makeMatcher("keywords", args.rule, args.ev)]
    /\ UNCHANGED <<provider, tables, DEDUP_MATCH_FILTERS_ONLY,
                   BACKFILL_AHEAD_DAYS, tokens, peer, args, worker, lastOp, hist>>

\* one mapping write, and the same write once more
MappingWrite ==
    /\ args.op = "write"
    /\ result = NoResult
    /\ LET first == mappingWrite(args.kind, args.rows, args.row)
           again == mappingWrite(args.kind, first.rows, args.row)
       IN  result' = [op |-> "write", rows |-> first.rows, threw |-> first.threw,
                      again |-> again.rows]
    /\ UNCHANGED <<provider, tables, DEDUP_MATCH_FILTERS_ONLY,
                   BACKFILL_AHEAD_DAYS, tokens, peer, args, worker, lastOp, hist>>

NextPure == Fingerprint \/ Match \/ MappingWrite

SpecPure == InitPure /\ [][NextPure]_vars

\* the provider fails calls after a source edit; or a target event is deleted
\* outside; or a token is missing or the rule is edited
FailBudgets ==
    { [ver |-> 1, edits |-> 0, outside |-> 0, crash |-> 0,
       faults |-> MaxFaults, tokens |-> 0],
      [ver |-> 1, edits |-> 0, outside |-> 1, crash |-> 0,
       faults |-> 0, tokens |-> 0],
      [ver |-> 0, edits |-> 1, outside |-> 0, crash |-> 0,
       faults |-> 0, tokens |-> MaxNoToken] }

\* a pattern that is no regular expression
BadPatterns == { <<"(">> }

\* both subscriptions are enabled, or the second one only
EnabledSets == { {"A", "B"}, {"B"} }

InitFail == \E enabled \in EnabledSets : InitWith(FailBudgets, {2}, enabled)

NextFail ==
    \/ Engine
    \/ \E id \in SourceIds, c \in ContentIds : SourceEdit(id, c)
    \/ \E id \in SourceIds : SourceCancel(id)
    \/ \E s \in Subs, v \in FilterValues \cup BadPatterns :
          UpdateFilters(s, "regex", <<v>>, FALSE)
    \/ \E cal \in TargetCals, id \in TargetIds : OutsideDelete(cal, id)
    \/ \E s \in Subs : RemoveToken(s)

\* runs may fail
SpecFail == InitFail /\ [][NextFail]_vars

(***************************************************************************)
(* Vocabulary of the properties.                                           *)
(***************************************************************************)
Cal(s) == subscriptions[s].target_calendar_id
Mapped(s) == DOMAIN event_mappings[s]
MappedTargets(s) == { event_mappings[s][x].target_id : x \in Mapped(s) }

\* the occurrences and single events of the source that match the rule of s
Matching(s) ==
    { id \in SourceIds : /\ ~IsSeries(id)
                         /\ Ev(id).status = "confirmed"
                         /\ match(s, Ev(id)) }

CurrentFingerprint(id) == fingerprintOfPayload(buildPayloadFromSource(Ev(id)))

\* the backfill window covers the time of every event of the source
WindowCoversAll == \A id \in SourceIds : InWindow(Ev(id))

\* the target events that were created as the mirror of source event id
Copies(cal, id) == { tid \in DOMAIN target[cal] : target[cal][tid].origin = id }

\* a complete run of s has ended and nothing has happened since
AfterRun(s) == pc \in {"idle", "runAll"} /\ hist.done[s] >= 1

\* a run of s has ended, in whatever way, and nothing has happened since
RunEnded(s) == pc \in {"idle", "runAll"} /\ hist.ended[s] \in {"ok", "error"}

\* the step consumes the item at the head of the page
ItemDone == pc' = pc /\ data.items # <<>> /\ data'.items = Tail(data.items)

CleanHistory == hist.crash = 0 /\ hist.outside = 0

(***************************************************************************)
(* C1 Convergence: when the backfill window covers all event times, after  *)
(* one complete run the mapped source ids are exactly the occurrences and  *)
(* single events that match the rule, and every mapping stores the         *)
(* fingerprint of the current mirrored fields of its source event.         *)
(***************************************************************************)
C1_Convergence ==
    \A s \in Subs :
        (AfterRun(s) /\ WindowCoversAll) =>
            /\ Mapped(s) = Matching(s)
            /\ \A id \in Mapped(s) :
                   event_mappings[s][id].fingerprint = CurrentFingerprint(id)

C1_Witness ==
    /\ AfterRun("A") /\ WindowCoversAll
    /\ srcVer > 0
    /\ Mapped("A") # {}
    /\ \E id \in SourceIds :
          ~IsSeries(id) /\ Ev(id).status = "confirmed" /\ id \notin Mapped("A")

(***************************************************************************)
(* C2 Idempotence: in a run that follows a complete run of the same        *)
(* subscription with nothing happening in between, no step writes to the   *)
(* target calendar or to the mapping table, and the counters of creates,   *)
(* updates and removes stay zero.                                          *)
(***************************************************************************)
C2_Idempotence ==
    [][ (sub # "" /\ hist.done[sub] >= 1) =>
            /\ event_mappings' = event_mappings
            /\ target' = target
            /\ lastOp'.kind \in {"none", "skip", "absent"}
            /\ counts' = NoCounts ]_vars

C2_Witness ==
    /\ pc = "finish"
    /\ hist.done[sub] >= 1
    /\ Cardinality(Mapped(sub)) >= 2

(***************************************************************************)
(* C3 Rule-change safety, as amended: after a filter edit that keeps the   *)
(* mappings and clears the cursor, one complete run with a backfill window *)
(* covering all event times ends with the mapped set equal to the matches  *)
(* of the new rule; without crashes, outside edits and wipes every match   *)
(* has exactly its mapped copy in the target and no other event has one.   *)
(***************************************************************************)
RuleChangeSafe(s) ==
    /\ Mapped(s) = Matching(s)
    /\ (CleanHistory /\ ~hist.wiped) =>
          \A id \in SourceIds :
              Copies(Cal(s), id) =
                  IF id \in Matching(s) THEN {event_mappings[s][id].target_id} ELSE {}

C3_RuleChange ==
    \A s \in Subs :
        (AfterRun(s) /\ hist.edit = "kept" /\ WindowCoversAll) => RuleChangeSafe(s)

\* C3 as stated: whatever the backfill window
C3_RuleChangeAnyWindow ==
    \A s \in Subs :
        (AfterRun(s) /\ hist.edit = "kept") => RuleChangeSafe(s)

C3_Witness ==
    /\ AfterRun("A") /\ hist.edit = "kept" /\ WindowCoversAll
    /\ \E id \in Mapped("A") : ~makeMatcher("keywords", <<"a">>, Ev(id))
    /\ \E id \in SourceIds \ Mapped("A") :
          /\ ~IsSeries(id) /\ Ev(id).status = "confirmed"
          /\ makeMatcher("keywords", <<"a">>, Ev(id))

(***************************************************************************)
(* C4 Cancellation propagation, as amended: the delta step for a cancelled *)
(* item leaves no mapping for it and has deleted the target event the      *)
(* mapping pointed to (it changes nothing when there was no mapping); when *)
(* the dedup pass of that run has completed, a target event created as a   *)
(* copy of that item remains only if dedup is restricted to matching       *)
(* events and the copy does not match the rule.                            *)
(***************************************************************************)
CancelledStep ==
    (pc = "delta" /\ data.items # <<>> /\ Head1.kind = "delta"
        /\ Head1.ev.status = "cancelled" /\ ItemDone) =>
        LET id == Head1.ev.id
        IN  /\ id \notin DOMAIN event_mappings'[sub]
            /\ IF id \in Mapped(sub)
               THEN event_mappings[sub][id].target_id \notin DOMAIN target'[Cal(sub)]
               ELSE event_mappings' = event_mappings /\ target' = target

C4_Cancellation ==
    [][ /\ CancelledStep
        /\ pc' = "finish" =>
              \A tid \in DOMAIN target'[Cal(sub')] :
                  target'[Cal(sub')][tid].origin \in hist'.cancelSeen =>
                      /\ DEDUP_MATCH_FILTERS_ONLY
                      /\ ~match(sub', target'[Cal(sub')][tid]) ]_vars

\* C4 as stated: no copy remains after the dedup pass
C4_CancellationAnyMode ==
    [][ /\ CancelledStep
        /\ pc' = "finish" =>
              \A tid \in DOMAIN target'[Cal(sub')] :
                  target'[Cal(sub')][tid].origin \notin hist'.cancelSeen ]_vars

C4_Witness ==
    /\ pc = "finish"
    /\ hist.crash > 0
    /\ hist.cancelSeen \cap hist.deduped # {}

(***************************************************************************)
(* C5 Recurring-master non-mirroring: no step hands a recurring master to  *)
(* upsertTarget, and no step creates or changes a mapping row or a target  *)
(* event for a recurring master.                                           *)
(***************************************************************************)
C5_NoMasterMirrored ==
    [][ /\ lastOp'.kind \in {"create", "update", "skip"} => ~IsSeries(lastOp'.source_id)
        /\ \A s \in Subs : \A id \in DOMAIN event_mappings'[s] :
              (id \notin Mapped(s) \/ event_mappings'[s][id] # event_mappings[s][id])
                  => ~IsSeries(id)
        /\ \A cal \in TargetCals : \A tid \in DOMAIN target'[cal] :
              (tid \notin DOMAIN target[cal] \/ target'[cal][tid] # target[cal][tid])
                  => ~IsSeries(target'[cal][tid].origin) ]_vars

C5_Witness ==
    /\ pc = "delta" /\ data.items # <<>>
    /\ Head1.kind = "master"
    /\ match(sub, Head1.ev)
    /\ lastOp.kind \in {"create", "update"}

(***************************************************************************)
(* C6 Master edit fan-out: a non-cancelled recurring master in the change  *)
(* feed is expanded into exactly its occurrences inside the backfill       *)
(* window; each of them that matches is updated in the target, whatever    *)
(* its stored etag and fingerprint, or created when it has no mapping, and *)
(* each that does not match loses its mapping and its target copy.         *)
(***************************************************************************)
OccurrencesInWindow(masterId) ==
    { id \in SourceIds : /\ MasterOf(id) = masterId
                         /\ Ev(id).status = "confirmed"
                         /\ InWindow(Ev(id)) }

C6_FanOut ==
    [][ /\ (pc = "delta" /\ data.items # <<>> /\ Head1.kind = "delta"
              /\ Head1.ev.status # "cancelled" /\ IsSeries(Head1.ev.id)
              /\ pc' = "delta" /\ data' # data) =>
            LET W == OccurrencesInWindow(Head1.ev.id)
                n == Cardinality(W)
            IN  /\ Len(data'.items) = n + Len(data.items)
                /\ \A i \in 1..n : data'.items[i].kind = "instance"
                /\ { data'.items[i].ev.id : i \in 1..n } = W
        /\ (pc = "delta" /\ data.items # <<>> /\ Head1.kind = "instance" /\ ItemDone) =>
            LET inst == Head1.ev
                cal == Cal(sub)
            IN  IF match(sub, inst)
                THEN IF inst.id \in Mapped(sub)
                     THEN /\ lastOp' = Op("update", inst.id,
                                          event_mappings[sub][inst.id].target_id,
                                          lastOp'.why, 0)
                          /\ event_mappings'[sub][inst.id] =
                                [target_id |-> event_mappings[sub][inst.id].target_id,
                                 etag |-> inst.etag,
                                 fingerprint |-> CurrentFingerprint(inst.id)]
                     ELSE /\ lastOp'.kind = "create"
                          /\ inst.id \in DOMAIN event_mappings'[sub]
                ELSE /\ inst.id \notin DOMAIN event_mappings'[sub]
                     /\ inst.id \in Mapped(sub) =>
                           event_mappings[sub][inst.id].target_id
                               \notin DOMAIN target'[cal] ]_vars

C6_Witness ==
    /\ pc = "delta"
    /\ lastOp.kind = "update" /\ lastOp.why = "force"
    /\ IsOccurrence(lastOp.source_id)

(***************************************************************************)
(* C7 Orphan cleanup, unrestricted mode: when the dedup pass has completed *)
(* every event of the target calendar is the target of a mapping row of    *)
(* the running subscription.                                               *)
(***************************************************************************)
C7_OrphanCleanup ==
    (pc = "finish" /\ ~DEDUP_MATCH_FILTERS_ONLY) =>
        DOMAIN target[Cal(sub)] \subseteq MappedTargets(sub)

C7_Witness ==
    /\ pc = "finish" /\ ~DEDUP_MATCH_FILTERS_ONLY
    /\ hist.deduped # {}
    /\ DOMAIN target[Cal(sub)] # {}

(***************************************************************************)
(* C8 Restricted dedup: with DEDUP_MATCH_FILTERS_ONLY a dedup step on an   *)
(* unmapped target event deletes it if it matches the rule and leaves the  *)
(* target calendar unchanged if it does not.                               *)
(***************************************************************************)
C8_RestrictedDedup ==
    [][ (pc = "dedup" /\ DEDUP_MATCH_FILTERS_ONLY /\ ItemDone
            /\ Head1.ev.id \notin MappedTargets(sub)) =>
            IF match(sub, Head1.ev)
            THEN Head1.ev.id \notin DOMAIN target'[Cal(sub)]
            ELSE target' = target ]_vars

C8_Witness ==
    /\ pc = "finish" /\ DEDUP_MATCH_FILTERS_ONLY
    /\ hist.deduped # {}
    /\ \E tid \in DOMAIN target[Cal(sub)] \ MappedTargets(sub) :
          ~match(sub, target[Cal(sub)][tid])

(***************************************************************************)
(* C9 Mapping/target agreement, as amended: without crashes, without       *)
(* outside edits of the target calendar and without a forced resync having *)
(* wiped the mapping rows, at the end of every run a mapping row exists    *)
(* for a source id iff a target event mirrored from it exists, and the row *)
(* points to that event.                                                   *)
(***************************************************************************)
Agreement(s) ==
    \A id \in SourceIds :
        /\ id \in Mapped(s) <=> Copies(Cal(s), id) # {}
        /\ id \in Mapped(s) => Copies(Cal(s), id) = {event_mappings[s][id].target_id}

C9_Agreement ==
    \A s \in Subs :
        (RunEnded(s) /\ CleanHistory /\ ~hist.wiped) => Agreement(s)

\* C9 as stated: without crashes and outside edits only
C9_AgreementAfterWipe ==
    \A s \in Subs :
        (RunEnded(s) /\ CleanHistory) => Agreement(s)

C9_Witness ==
    /\ RunEnded("A") /\ CleanHistory /\ ~hist.wiped
    /\ hist.edits > 0
    /\ Mapped("A") # {}
    /\ \E id \in SourceIds :
          ~IsSeries(id) /\ Ev(id).status = "confirmed" /\ id \notin Mapped("A")

(***************************************************************************)
(* C10 Upsert semantics: a step that hands an occurrence to upsertTarget   *)
(* creates a target event and a mapping iff the occurrence has no mapping, *)
(* issues an update iff it has one and the stored fingerprint or the       *)
(* stored etag differs or the refresh is forced, and otherwise writes      *)
(* nothing.                                                                *)
(***************************************************************************)
C10_UpsertSemantics ==
    [][ (UpsertPending /\ pc' # "idle") =>
            LET ev == Head1.ev
                cal == Cal(sub)
                mapped == ev.id \in Mapped(sub)
                force == Head1.kind = "instance"
                stale == /\ mapped
                         /\ \/ event_mappings[sub][ev.id].fingerprint
                                  # CurrentFingerprint(ev.id)
                            \/ event_mappings[sub][ev.id].etag # ev.etag
                            \/ force
            IN  /\ lastOp'.kind = "create" <=> ~mapped
                /\ ~mapped =>
                      /\ ev.id \in DOMAIN event_mappings'[sub]
                      /\ event_mappings'[sub][ev.id].target_id
                            \in (DOMAIN target'[cal]) \ (DOMAIN target[cal])
                /\ lastOp'.kind = "update" <=> stale
                /\ (mapped /\ ~stale) =>
                      /\ lastOp'.kind = "skip"
                      /\ event_mappings' = event_mappings
                      /\ target' = target ]_vars

C10_Witness ==
    /\ pc \in {"delta", "backfill"}
    /\ lastOp.kind = "update" /\ lastOp.why = "etag" /\ lastOp.err = 0
    /\ ~IsSeries(lastOp.source_id)

(***************************************************************************)
(* C11 Update, not second create: when upsertTarget is handed an           *)
(* occurrence whose mapping points to an existing target event and whose   *)
(* stored fingerprint and stored etag both differ, the step issues one     *)
(* update to that target event and no create; the mapping keeps its target *)
(* id and records the new etag and fingerprint, and the target events      *)
(* mirrored from that source id stay the one.                              *)
(***************************************************************************)
C11_UpdateNotCreate ==
    [][ (/\ UpsertPending
         /\ Head1.ev.id \in Mapped(sub)
         /\ event_mappings[sub][Head1.ev.id].target_id \in DOMAIN target[Cal(sub)]
         /\ event_mappings[sub][Head1.ev.id].fingerprint
                # CurrentFingerprint(Head1.ev.id)
         /\ event_mappings[sub][Head1.ev.id].etag # Head1.ev.etag) =>
            LET ev == Head1.ev
                row == event_mappings[sub][ev.id]
                cal == Cal(sub)
            IN  /\ lastOp' = Op("update", ev.id, row.target_id, "content", 0)
                /\ counts' = [counts EXCEPT !.updated = @ + 1]
                /\ event_mappings'[sub][ev.id] =
                      [target_id |-> row.target_id, etag |-> ev.etag,
                       fingerprint |-> CurrentFingerprint(ev.id)]
                /\ DOMAIN target'[cal] = DOMAIN target[cal]
                /\ { tid \in DOMAIN target'[cal] : target'[cal][tid].origin = ev.id }
                      = Copies(cal, ev.id) ]_vars

C11_Witness ==
    /\ pc \in {"delta", "backfill"}
    /\ lastOp.kind = "update" /\ lastOp.why = "content" /\ lastOp.err = 0
    /\ Copies(Cal(sub), lastOp.source_id) = {lastOp.target_id}
    /\ event_mappings[sub][lastOp.source_id].etag > 0

(***************************************************************************)
(* Vocabulary of the properties about cursors and errors.                  *)
(***************************************************************************)
Cursor(s) == subscription_state[s].sync_token

\* the step ends the run that was in progress
RunEnds == sub # "" /\ pc' = "runAll"

\* the passes after the delta pass
LaterPasses == {"backfillList", "backfill", "pruneList", "prune", "dedupList", "dedup"}

(***************************************************************************)
(* C12 Cursor advance: during a run the stored sync_token is set to a      *)
(* value only at the end of the terminal page of the change feed, to that  *)
(* page's nextSyncToken, when every item of the page has been processed,   *)
(* and the delta pass is over then; when the processing of an item fails,  *)
(* the stored cursor is the one the run started with.                      *)
(***************************************************************************)
C12_CursorAdvance ==
    [][ sub # "" =>
          /\ (subscription_state'[sub].sync_token \notin {Cursor(sub), NULL}) =>
                /\ pc = "delta" /\ data.items = <<>>
                /\ data.nextPageToken = <<>>
                /\ Cursor(sub) = state
                /\ subscription_state'[sub].sync_token = data.nextSyncToken
                /\ pc' = "backfillList"
          /\ (pc = "delta" /\ data.items # <<>> /\ RunEnds) =>
                subscription_state'[sub].sync_token = state ]_vars

(***************************************************************************)
(* C13 Cursor preserved on downstream failure: when the backfill, prune or *)
(* dedup pass fails, the cursor the delta pass stored stays stored, and    *)
(* the row of the run changes in last_status and last_run_at only.         *)
(***************************************************************************)
C13_CursorPreserved ==
    [][ (sub # "" /\ pc \in LaterPasses /\ RunEnds) =>
          /\ subscription_state'[sub].sync_token = Cursor(sub)
          /\ subscription_state'[sub] =
                [subscription_state[sub] EXCEPT !.last_status = "error",
                                                !.last_run_at = "set"] ]_vars

(***************************************************************************)
(* C14 Cursor nulling is limited to two causes: a stored cursor becomes    *)
(* null only when listChanges reports the token expired or when the        *)
(* filter-edit tool clears it; an error of any other provider call leaves  *)
(* the cursor as it is.                                                    *)
(***************************************************************************)
C14_CursorNulling ==
    [][ \A s \in Subs :
          (Cursor(s) # NULL /\ subscription_state'[s].sync_token = NULL) =>
              \/ pc = "listChanges" /\ s = sub /\ lastOp'.err = 410
              \/ pc = "idle" /\ hist'.edits = hist.edits + 1 ]_vars

(***************************************************************************)
(* C15 Cursor-invalid handling: when listChanges answers that the token    *)
(* expired, the run nulls the stored cursor and changes nothing else of    *)
(* the row (last_status is not set to error), runs none of the remaining   *)
(* passes, and returns without raising; the next run of the subscription   *)
(* starts with no cursor, so that its first listChanges is a full listing. *)
(***************************************************************************)
C15_CursorInvalid ==
    [][ /\ (pc = "listChanges" /\ lastOp'.err = 410) =>
              /\ subscription_state' =
                    [subscription_state EXCEPT ![sub].sync_token = NULL]
              /\ pc' = "runAll"
              /\ hist'.ended[sub] = "expired"
              /\ UNCHANGED <<event_mappings, target, source>>
        /\ (/\ pc = "runAll" /\ subs # <<>>
            /\ hist.ended[Head(subs)] = "expired"
            /\ pc' = "listChanges") =>
              /\ sub' = Head(subs)
              /\ state' = NULL
              /\ data' = NoData ]_vars

\* a run that had a cursor and a good status ended on an expired token
C15_Witness ==
    /\ pc = "runAll"
    /\ lastOp.kind = "listChanges" /\ lastOp.err = 410
    /\ \E s \in Subs : /\ hist.ended[s] = "expired"
                       /\ Cursor(s) = NULL
                       /\ subscription_state[s].last_status = "ok"
                       /\ Mapped(s) # {}

(***************************************************************************)
(* C16 Error status: every run that ends in an error other than an expired *)
(* token reported by listChanges (a provider failure, a missing            *)
(* credential, a rule that does not compile) leaves last_status = "error"  *)
(* in the row of the subscription and executes no later pass.              *)
(***************************************************************************)
C16_ErrorStatus ==
    [][ /\ (/\ pc = "runAll" /\ subs # <<>>
            /\ hist'.ended[Head(subs)] = "threw") =>
              /\ subscription_state'[Head(subs)].last_status = "error"
              /\ pc' = "runAll"
        /\ (sub # "" /\ RunEnds /\ pc # "finish"
              /\ ~(pc = "listChanges" /\ lastOp'.err = 410)) =>
              subscription_state'[sub].last_status = "error" ]_vars

(***************************************************************************)
(* C17 Batch runner: one batch of runAll runs every enabled subscription   *)
(* exactly once, one after the other in the order of the table, and never  *)
(* a disabled one; an error raised by the run of one subscription does not *)
(* prevent the runs of the following ones.                                 *)
(***************************************************************************)
C17_BatchRunner ==
    [][ /\ (pc = "runAll" /\ pc' = "idle") =>
              hist.batch = SelectSeq(SubOrder,
                                     LAMBDA s : subscriptions[s].is_enabled)
        /\ (pc = "runAll" /\ pc' # "idle" /\ hist'.batch # hist.batch) =>
              /\ hist'.batch = Append(hist.batch, Head(subs))
              /\ subscriptions[Head(subs)].is_enabled
        /\ (pc \notin {"runAll", "idle"}) =>
              /\ hist'.batch = hist.batch
              /\ sub = hist.batch[Len(hist.batch)] ]_vars

\* the first subscription of the batch ended in an error and the second one
\* has run to its end
C17_Witness ==
    /\ pc = "runAll" /\ subs = <<>>
    /\ hist.batch = <<"A", "B">>
    /\ hist.ended["A"] \in {"error", "threw"}
    /\ hist.ended["B"] = "ok"

(***************************************************************************)
(* C18 Subscription isolation of local state: a step of the runner, while  *)
(* a run of one subscription is in progress or ends, changes mapping rows  *)
(* and the state row of that subscription only; the steps of runAll        *)
(* between two runs change no row at all.                                  *)
(***************************************************************************)
C18_Isolation ==
    [][ pc # "idle" =>
          \A s \in Subs \ {sub} :
              /\ event_mappings'[s] = event_mappings[s]
              /\ subscription_state'[s] = subscription_state[s] ]_vars

\* a run of B has written a row or its state while A holds rows, a cursor
\* and a status of its own
C18_Witness ==
    /\ pc = "runAll" /\ hist.batch = <<"A", "B">>
    /\ hist.ended["A"] = "ok" /\ hist.ended["B"] = "error"
    /\ Mapped("A") # {} /\ Mapped("B") # {}
    /\ Cursor("A") # NULL
    /\ subscription_state["A"].last_status = "ok"
    /\ subscription_state["B"].last_status = "error"

(***************************************************************************)
(* C19 Remote-then-local ordering: a step of a run changes at most the     *)
(* mapping row of the source event it works on, and only together with the *)
(* remote call that succeeded: a row is inserted with the id of the event  *)
(* just created, updated with the id of the event just updated, deleted    *)
(* when the delete succeeded or answered NotFound; when the remote call    *)
(* fails with another error, every mapping row is as it was.               *)
(***************************************************************************)
C19_RemoteThenLocal ==
    [][ (sub # "") =>
          LET cal  == Cal(sub)
              old  == event_mappings[sub]
              new  == event_mappings'[sub]
              op   == lastOp'
              Changed == { id \in SourceIds :
                             \/ (id \in DOMAIN old) # (id \in DOMAIN new)
                             \/ /\ id \in DOMAIN old /\ id \in DOMAIN new
                                /\ old[id] # new[id] }
          IN  /\ \A id \in Changed :
                   /\ op.source_id = id
                   /\ op.kind \in {"create", "update", "delete"}
                   /\ op.kind = "create" =>
                         /\ op.err = 0
                         /\ id \notin DOMAIN old
                         /\ op.target_id \notin DOMAIN target[cal]
                         /\ op.target_id \in DOMAIN target'[cal]
                         /\ new[id].target_id = op.target_id
                   /\ op.kind = "update" =>
                         /\ op.err = 0
                         /\ op.target_id = old[id].target_id
                         /\ op.target_id \in DOMAIN target'[cal]
                         /\ new[id].target_id = op.target_id
                   /\ op.kind = "delete" =>
                         /\ op.err \in {0, 404}
                         /\ op.target_id = old[id].target_id
                         /\ op.target_id \notin DOMAIN target'[cal]
                         /\ (op.err = 404) = (op.target_id \notin DOMAIN target[cal])
                         /\ id \notin DOMAIN new
              /\ (op.err # 0 /\ ~(op.kind = "delete" /\ op.err = 404)) =>
                    event_mappings' = event_mappings ]_vars

\* a failed remote write on a mapped event, with the row still in place
C19_Witness ==
    /\ pc = "runAll"
    /\ lastOp.kind \in {"update", "delete"}
    /\ lastOp.err \in ErrorCodes
    /\ \E s \in Subs :
          /\ hist.ended[s] \in {"error", "expired"}
          /\ lastOp.source_id \in Mapped(s)
          /\ event_mappings[s][lastOp.source_id].target_id = lastOp.target_id
          /\ lastOp.target_id \in DOMAIN target[Cal(s)]

\* a delete the provider answered with NotFound, with the row deleted
C19_WitnessNotFound ==
    /\ sub # ""
    /\ lastOp.kind = "delete" /\ lastOp.err = 404
    /\ lastOp.source_id \notin Mapped(sub)

(***************************************************************************)
(* C20 Crash self-healing: after a crash between the remote create of a    *)
(* source event and the write of its mapping row, at the end of the next   *)
(* complete run with unrestricted dedup the target holds exactly one copy  *)
(* of that source event, the one its mapping row points at, when the event *)
(* is to be mirrored, and no copy of it otherwise: the orphaned copy is    *)
(* gone.                                                                   *)
(***************************************************************************)
C20_SelfHealing ==
    \A s \in Subs : \A id \in hist.orphaned :
        (AfterRun(s) /\ subscriptions[s].is_enabled
                     /\ ~DEDUP_MATCH_FILTERS_ONLY) =>
            /\ id \in Matching(s) => id \in Mapped(s)
            /\ Copies(Cal(s), id) =
                  IF id \in Mapped(s)
                  THEN {event_mappings[s][id].target_id} ELSE {}

\* the passes of the run after the crash are over: its dedup pass deleted
\* the orphaned copy of an event that is mirrored
C20_Witness ==
    /\ pc = "finish" /\ sub = "A"
    /\ ~DEDUP_MATCH_FILTERS_ONLY
    /\ \E id \in hist.orphaned :
          /\ id \in Matching("A") /\ id \in Mapped("A")
          /\ id \in hist.deduped
          /\ Cardinality(Copies(Cal("A"), id)) = 1

(***************************************************************************)
(* C21 Filter edit invalidates the cursor: every filter edit (replace,     *)
(* append or remove, keywords or regex) leaves the cursor of the edited    *)
(* subscription null; with --resync the subscription has no mapping row    *)
(* afterwards, without it its mapping rows are unchanged; the rows of the  *)
(* other subscriptions are unchanged.                                      *)
(***************************************************************************)
C21_FilterEditClearsCursor ==
    [][ (pc = "idle" /\ hist'.edits = hist.edits + 1) =>
          \E s \in Subs :
             /\ subscription_state'[s].sync_token = NULL
             /\ hist'.edit = "wiped" => event_mappings'[s] = <<>>
             /\ hist'.edit = "kept" => event_mappings'[s] = event_mappings[s]
             /\ hist'.edit \in {"wiped", "kept"}
             /\ \A o \in Subs \ {s} :
                   /\ subscription_state'[o] = subscription_state[o]
                   /\ event_mappings'[o] = event_mappings[o]
                   /\ subscriptions'[o] = subscriptions[o] ]_vars

\* just after an edit without --resync of a subscription that had run: the
\* rows are there, the cursor is not
C21_Witness ==
    /\ pc = "idle"
    /\ hist.edits >= 1 /\ hist.edit = "kept" /\ hist.done = NoRuns
    /\ Mapped("A") # {}
    /\ MappedTargets("A") \subseteq DOMAIN target[Cal("A")]
    /\ Cursor("A") = NULL
    /\ subscriptions["A"].filters_raw # <<"a">>

\* just after an edit with --resync of a subscription that had run
C21_WitnessResync ==
    /\ pc = "idle"
    /\ hist.edits >= 1 /\ hist.edit = "wiped" /\ hist.done = NoRuns
    /\ Mapped("A") = {}
    /\ DOMAIN target[Cal("A")] # {}
    /\ Cursor("A") = NULL

C22_WitnessGone ==
    /\ pc = "prune"
    /\ lastOp.kind = "delete" /\ lastOp.err = 0
    /\ Ev(lastOp.source_id).status = "none"

C22_WitnessKept ==
    /\ pc = "prune" /\ lastOp.kind = "none"
    /\ Len(data.items) < Cardinality(Mapped(sub))

(***************************************************************************)
(* C23 NotFound is not an error: when the point read of the prune pass or  *)
(* a delete of a target event (in removeTarget or in the dedup pass) is    *)
(* answered with NotFound, the run goes on in the same pass and the state  *)
(* row of the subscription is not written; in removeTarget the mapping row *)
(* is deleted and the removal is counted.                                  *)
(***************************************************************************)
C23_NotFoundNoError ==
    [][ (/\ sub # ""
         /\ \/ lastOp'.err = 404 /\ lastOp'.kind \in {"delete", "dedup"}
            \/ /\ pc = "prune" /\ data.items # <<>>
               /\ Ev(Head1.ev.id).status = "none") =>
          /\ pc' = pc
          /\ sub' = sub
          /\ subscription_state' = subscription_state
          /\ hist'.ended = hist.ended
          /\ lastOp'.kind = "delete" =>
                /\ lastOp'.source_id \in Mapped(sub)
                /\ lastOp'.source_id \notin DOMAIN event_mappings'[sub]
                /\ counts'.removed = counts.removed + 1 ]_vars

\* the prune pass: the source event is gone and so is its copy; the row is
\* deleted and the run goes on
C23_Witness ==
    /\ pc = "prune"
    /\ lastOp.kind = "delete" /\ lastOp.err = 404
    /\ Ev(lastOp.source_id).status = "none"
    /\ lastOp.source_id \notin Mapped(sub)
    /\ counts.removed >= 1

\* a delete of the dedup pass answered with NotFound
C23_WitnessDedup ==
    /\ pc = "dedup" /\ lastOp.kind = "dedup" /\ lastOp.err = 404

(***************************************************************************)
(* C24 Resumability: when a run is interrupted between two passes (after   *)
(* delta, after backfill or after prune) and the source does not change    *)
(* and the filter tool is not used before the end of the next complete     *)
(* run, that run ends with the                                             *)
(* mapping rows and the target calendar that the interrupted run would     *)
(* have ended with. What a run would end with is RestOfRun: every step of  *)
(* the passes after delta leaves it as it is, and the run ends with it.    *)
(***************************************************************************)
C24_Resumable ==
    [][ /\ (/\ sub # "" /\ sub' = sub
            /\ pc \in LaterPasses
            /\ pc' \in LaterPasses \cup {"finish"}) =>
              Outcome(RestOfRunAt(pc', data',
                                   Begin(event_mappings', target', counts'),
                                   valid')) = Outcome(RestOfRun)
        /\ (/\ pc = "finish" /\ pc' = "runAll"
            /\ hist.expect.set /\ hist.expect.sub = sub
            /\ hist.expect.source = source
            /\ hist.expect.edits = hist.edits) =>
              /\ event_mappings'[sub] = hist.expect.m
              /\ target'[Cal(sub)] = hist.expect.t ]_vars

\* the run after an interruption that came after the delta pass is over:
\* it has the rows and the copies the interrupted run was still to make
C24_Witness ==
    /\ pc = "finish"
    /\ hist.expect.set /\ hist.expect.sub = sub /\ hist.expect.at = "backfillList"
    /\ hist.expect.source = source
    /\ hist.expect.edits = hist.edits
    /\ counts.created + counts.removed >= 1
    /\ Mapped(sub) # {}

(***************************************************************************)
(* C25 Status domain, as stated: in every state the last_status of every   *)
(* subscription is ok or error.                                            *)
(***************************************************************************)
C25_StatusDomain ==
    \A s \in Subs : subscription_state[s].last_status \in {"ok", "error"}

(***************************************************************************)
(* C25 Status domain, as amended: in every state the last_status of every  *)
(* subscription is ok, error or null; it is null exactly when last_run_at  *)
(* is null, that is when no run has written the row since the subscription *)
(* was added or its filters were edited, and the cursor is null then.      *)
(***************************************************************************)
C25_StatusDomainOrNull ==
    \A s \in Subs :
        /\ subscription_state[s].last_status \in {"ok", "error", "NULL"}
        /\ subscription_state[s].last_status = "NULL"
              <=> subscription_state[s].last_run_at = "NULL"
        /\ subscription_state[s].last_status = "NULL" => Cursor(s) = NULL

\* a filter edit has nulled the status of a subscription that had run, and
\* the other subscription has a status
C25_Witness ==
    /\ pc = "idle" /\ hist.edits >= 1
    /\ \E s \in Subs : /\ subscription_state[s].last_status = "NULL"
                       /\ Mapped(s) # {}
    /\ \E s \in Subs : subscription_state[s].last_status \in {"ok", "error"}

(***************************************************************************)
(* C26 Zero matches is success: a run that reaches its end while the rule  *)
(* matches no event of the source (an empty keyword list matches none)     *)
(* stores last_status ok, has created and updated nothing, and leaves the  *)
(* subscription without mapping rows.                                      *)
(***************************************************************************)
NoneMatches(s) ==
    \A id \in SourceIds : Ev(id).status # "none" => ~match(s, Ev(id))

C26_ZeroMatches ==
    [][ (pc = "finish" /\ NoneMatches(sub)) =>
          /\ pc' = "runAll"
          /\ subscription_state'[sub].last_status = "ok"
          /\ hist'.ended[sub] = "ok"
          /\ counts.created = 0 /\ counts.updated = 0
          /\ event_mappings'[sub] = <<>> ]_vars

\* a run with an empty keyword list has ended: the rows and copies of the
\* run before are gone
C26_Witness ==
    /\ pc = "runAll" /\ hist.ended["A"] = "ok"
    /\ subscriptions["A"].filter_type = "keywords"
    /\ subscriptions["A"].filters_raw = <<>>
    /\ NoneMatches("A")
    /\ hist.edit = "kept"
    /\ subscription_state["A"].last_status = "ok"
    /\ Mapped("A") = {}
    /\ target[Cal("A")] = <<>>

(***************************************************************************)
(* C27 Fingerprint stability: two events of the source get the same        *)
(* fingerprint if and only if their mirrored-field projections             *)
(* (buildPayloadFromSource) are the same: title, description, location,    *)
(* start, end, reminders and transparency, a nested object being the same  *)
(* whatever the order of its keys; the etag and the fields that are not    *)
(* mirrored do not count.                                                  *)
(***************************************************************************)
SameObject(a, b) ==
    IF a = Undefined \/ b = Undefined THEN a = b
    ELSE \A i \in 1..Len(KeyOrder) :
            /\ HasKey(a, KeyOrder[i]) <=> HasKey(b, KeyOrder[i])
            /\ HasKey(a, KeyOrder[i]) => Get(a, KeyOrder[i]) = Get(b, KeyOrder[i])

SameProjection(e1, e2) ==
    LET p == buildPayloadFromSource(e1)
        q == buildPayloadFromSource(e2)
    IN  /\ p.summary = q.summary
        /\ p.description = q.description
        /\ p.location = q.location
        /\ SameObject(p.start, q.start)
        /\ SameObject(p.end, q.end)
        /\ SameObject(p.reminders, q.reminders)
        /\ p.transparency = q.transparency

C27_FingerprintStable ==
    result.op = "fingerprint" =>
        (result.a = result.b <=> SameProjection(args.e1, args.e2))

\* two events with the keys of start, end and reminders in different order,
\* different etags and different fields that are not mirrored: one
\* fingerprint
C27_Witness ==
    /\ result.op = "fingerprint"
    /\ args.e1.start # args.e2.start
    /\ args.e1.end # args.e2.end
    /\ args.e1.reminders # args.e2.reminders
    /\ args.e1.reminders # Undefined
    /\ args.e1.etag # args.e2.etag
    /\ args.e1.colorId # args.e2.colorId
    /\ result.a = result.b

\* two events that differ in their location only: two fingerprints
C27_WitnessDiffer ==
    /\ result.op = "fingerprint"
    /\ args.e2 = [args.e1 EXCEPT !.location = <<"b">>]
    /\ result.a # result.b

(***************************************************************************)
(* C28 Keyword matcher: the matcher of a keywords rule answers true for an *)
(* event if and only if one of the comma-separated keywords of the rule,   *)
(* normalized and not empty, is a substring of the normalized text         *)
(* "title description location" of the event; calling it changes nothing   *)
(* but the answer.                                                         *)
(***************************************************************************)
\* the pieces of a raw pattern between its commas
PiecesBetweenCommas(raw) ==
    { SubSeq(raw, w[1] + 1, w[2] - 1) :
        w \in { w \in (0..Len(raw)) \X (1..(Len(raw) + 1)) :
                  /\ w[1] < w[2]
                  /\ w[1] = 0 \/ raw[w[1]] = ","
                  /\ w[2] = Len(raw) + 1 \/ raw[w[2]] = ","
                  /\ \A n \in (w[1] + 1)..(w[2] - 1) : raw[n] # "," } }

SearchableText(ev) ==
    (IF ev.summary = Undefined THEN <<>> ELSE ev.summary) \o <<" ">>
    \o (IF ev.description = Undefined THEN <<>> ELSE ev.description) \o <<" ">>
    \o (IF ev.location = Undefined THEN <<>> ELSE ev.location)

IsSubstring(k, text) ==
    \E i \in 1..(Len(text) + 1), j \in 0..Len(text) : SubSeq(text, i, j) = k

KeywordMatches(raw, ev) ==
    \E piece \in PiecesBetweenCommas(raw) :
        /\ normalize(piece) # <<>>
        /\ IsSubstring(normalize(piece), normalize(SearchableText(ev)))

C28_KeywordMatcher ==
    [][ (args.op = "match" /\ result'.op = "match") =>
            /\ result'.match <=> KeywordMatches(args.rule, args.ev)
            /\ UNCHANGED <<provider, tables, worker, tokens, args>> ]_vars

\* a rule of two keywords, the first of which is in no field and the second,
\* after normalisation, in the description
C28_Witness ==
    /\ result.op = "match"
    /\ result.match
    /\ args.rule = <<"c", ",", ",", " ", "B", " ">>
    /\ args.ev.summary = <<"A'">>
    /\ args.ev.description = <<"b">>
    /\ args.ev.location = Undefined

\* a rule whose keywords are all empty matches no event
C28_WitnessEmpty ==
    /\ result.op = "match"
    /\ ~result.match
    /\ args.rule = <<",">>
    /\ args.ev.summary = <<"a">>

(***************************************************************************)
(* C29 Pass order: a run goes through its passes in the order delta,       *)
(* backfill, prune, dedup, none skipped; it enters the next pass only by a *)
(* step that raised no error; and last_status becomes ok only by the step  *)
(* that follows the end of the dedup pass, when the four passes are over.  *)
(***************************************************************************)
PassOf(p) ==
    CASE p \in {"listChanges", "delta"} -> 1
      [] p \in {"backfillList", "backfill"} -> 2
      [] p \in {"pruneList", "prune"} -> 3
      [] p \in {"dedupList", "dedup"} -> 4
      [] p = "finish" -> 5
      [] OTHER -> 0

Status(s) == subscription_state[s].last_status

\* the order of the passes and the condition to enter the next one
PassesInOrder ==
    /\ (sub = "" /\ sub' # "") => PassOf(pc') = 1
    /\ (sub # "" /\ pc' # "runAll") =>
          /\ PassOf(pc') \in {PassOf(pc), PassOf(pc) + 1}
          /\ PassOf(pc') = PassOf(pc) + 1 =>
                /\ hist'.ended[sub] = "running"
                /\ lastOp'.err = 0
    /\ (sub # "" /\ pc' = "runAll" /\ hist'.ended[sub] = "ok") => pc = "finish"

C29_PassOrder ==
    [][ /\ PassesInOrder
        /\ (/\ sub # "" /\ Status(sub) # "ok"
            /\ subscription_state'[sub].last_status = "ok") =>
              pc = "finish" ]_vars

\* the first two parts hold on their own
C29_PassesInOrder == [][PassesInOrder]_vars

\* a run in its dedup pass after a prune pass that removed a copy
C29_Witness ==
    /\ sub # "" /\ pc = "dedup"
    /\ counts.removed > 0
    /\ Status(sub) = "ok"

(***************************************************************************)
(* C30 Delta dispatch for ordinary items: when the delta pass has          *)
(* processed an item of the change feed that is neither cancelled nor a    *)
(* recurring master, the item is mapped if and only if it matches the      *)
(* rule: a matching item is upserted (its row holds its etag and its       *)
(* fingerprint), and the row and the target copy of an item that does not  *)
(* match are removed.                                                      *)
(***************************************************************************)
\* the step processes the ordinary item at the head of the page
ProcessesOrdinary ==
    /\ sub # "" /\ sub' = sub
    /\ pc = "delta" /\ pc' = "delta"
    /\ data.items # <<>>
    /\ Head1.kind = "delta"
    /\ Head1.ev.status # "cancelled"
    /\ ~isRecurringMaster(Head1.ev)
    /\ data'.items = Tail(data.items)
    /\ lastOp'.err \in {0, 404}
    /\ lastOp'.kind # "update" \/ lastOp'.err = 0

C30_DeltaDispatch ==
    [][ ProcessesOrdinary =>
          LET ev == Head1.ev
              id == ev.id
          IN  /\ id \in DOMAIN event_mappings'[sub] <=> match(sub, ev)
              /\ match(sub, ev) =>
                    /\ lastOp'.kind \in {"create", "update", "skip"}
                    /\ lastOp'.source_id = id
                    /\ event_mappings'[sub][id].etag = ev.etag
                    /\ event_mappings'[sub][id].fingerprint =
                          fingerprintOfPayload(buildPayloadFromSource(ev))
              /\ ~match(sub, ev) =>
                    /\ lastOp'.kind \in {"delete", "absent"}
                    /\ id \in Mapped(sub) =>
                          event_mappings[sub][id].target_id
                             \notin DOMAIN target'[Cal(sub)] ]_vars

\* the delta pass has created the copy of a single event that matches
C30_Witness ==
    /\ sub # "" /\ pc = "delta"
    /\ lastOp.kind = "create"
    /\ ~Ev(lastOp.source_id).recurrence
    /\ Ev(lastOp.source_id).recurringEventId = ""
    /\ match(sub, Ev(lastOp.source_id))
    /\ lastOp.source_id \in Mapped(sub)

\* the delta pass has removed the row and the copy of a single event that
\* is in the source and does not match
C30_WitnessRemoved ==
    /\ sub # "" /\ pc = "delta"
    /\ lastOp.kind = "delete" /\ lastOp.err = 0
    /\ Ev(lastOp.source_id).status = "confirmed"
    /\ ~Ev(lastOp.source_id).recurrence
    /\ Ev(lastOp.source_id).recurringEventId = ""
    /\ ~match(sub, Ev(lastOp.source_id))
    /\ lastOp.source_id \notin Mapped(sub)
    /\ lastOp.target_id \notin DOMAIN target[Cal(sub)]

(***************************************************************************)
(* C31 Backfill only adds or refreshes: a step of the backfill pass        *)
(* deletes no mapping row and no target event; for an event that does not  *)
(* match it writes nothing; for a matching occurrence of the window it     *)
(* creates the mirror when the occurrence is unmapped and updates it when  *)
(* the stored etag or fingerprint is stale, whatever the cursor is.        *)
(***************************************************************************)
\* the step is one of the worker in its backfill pass
BackfillStep ==
    /\ sub # "" /\ pc \in {"backfillList", "backfill"}
    /\ worker' # worker

C31_BackfillOnlyAdds ==
    [][ BackfillStep =>
          /\ Mapped(sub) \subseteq DOMAIN event_mappings'[sub]
          /\ DOMAIN target[Cal(sub)] \subseteq DOMAIN target'[Cal(sub)]
          /\ lastOp'.kind \in {"none", "create", "update", "skip"}
          /\ (pc = "backfill" /\ data.items # <<>>) =>
                LET ev == Head1.ev
                    fp == fingerprintOfPayload(buildPayloadFromSource(ev))
                IN  /\ ~match(sub, ev) =>
                          /\ event_mappings' = event_mappings
                          /\ target' = target
                          /\ lastOp'.kind = "none"
                    /\ (match(sub, ev) /\ ev.id \notin Mapped(sub)) =>
                          /\ InWindow(ev)
                          /\ lastOp'.kind = "create"
                          /\ ev.id \in DOMAIN event_mappings'[sub]
                          /\ event_mappings'[sub][ev.id].target_id
                                \in DOMAIN target'[Cal(sub)]
                    /\ (/\ match(sub, ev) /\ ev.id \in Mapped(sub)
                        /\ \/ event_mappings[sub][ev.id].etag # ev.etag
                           \/ event_mappings[sub][ev.id].fingerprint # fp) =>
                          /\ lastOp'.kind = "update"
                          /\ lastOp'.err = 0 =>
                                /\ event_mappings'[sub][ev.id].etag = ev.etag
                                /\ event_mappings'[sub][ev.id].fingerprint = fp ]_vars

\* the backfill pass of a run that started with a cursor has created the
\* mirror of an event that matches since the delta pass of the run read the
\* change feed
C31_Witness ==
    /\ sub # "" /\ pc = "backfill"
    /\ state # NULL
    /\ lastOp.kind = "create"
    /\ lastOp.source_id \in Mapped(sub)
    /\ event_mappings[sub][lastOp.source_id].target_id \in DOMAIN target[Cal(sub)]

\* the backfill pass has updated a mirror whose etag was stale
C31_WitnessUpdate ==
    /\ sub # "" /\ pc = "backfill"
    /\ lastOp.kind = "update" /\ lastOp.err = 0

\* the backfill pass has passed over an event that does not match
C31_WitnessNoMatch ==
    /\ sub # "" /\ pc = "backfill"
    /\ lastOp.kind = "none"
    /\ \E id \in SourceIds :
          /\ Ev(id).status = "confirmed" /\ ~match(sub, Ev(id)) /\ InWindow(Ev(id))
          /\ ~Ev(id).recurrence
          /\ id \notin { data.items[i].ev.id : i \in 1..Len(data.items) }

(***************************************************************************)
(* C32 Legacy master cleanup: a mapping whose source is a recurring master *)
(* is removed, with its target copy, by the delta item of the master or by *)
(* the prune pass, and when a run has completed no mapping of the          *)
(* subscription has a recurring master as its source.                      *)
(***************************************************************************)
C32_LegacyMasterCleanup ==
    [][ sub # "" =>
          /\ \A id \in Mapped(sub) :
                (/\ isRecurringMaster(Ev(id))
                 /\ id \notin DOMAIN event_mappings'[sub]) =>
                    /\ pc \in {"delta", "prune"}
                    /\ lastOp' = Op("delete", id, event_mappings[sub][id].target_id, "",
                                    lastOp'.err)
                    /\ event_mappings[sub][id].target_id
                          \notin DOMAIN target'[Cal(sub)]
          /\ (pc = "finish" /\ pc' = "runAll") =>
                \A id \in DOMAIN event_mappings'[sub] : ~isRecurringMaster(Ev(id)) ]_vars

\* the prune pass of a run that started with a cursor, and whose change feed
\* did not hold the master, has removed the mapping and the copy of the
\* master
C32_Witness ==
    /\ sub # "" /\ pc = "prune"
    /\ state # NULL
    /\ lastOp.kind = "delete" /\ lastOp.source_id = "m1" /\ lastOp.err = 0
    /\ isRecurringMaster(Ev("m1"))
    /\ "m1" \notin Mapped(sub)
    /\ lastOp.target_id \notin DOMAIN target[Cal(sub)]

\* the delta item of the master has removed them
C32_WitnessDelta ==
    /\ sub # "" /\ pc = "delta"
    /\ lastOp.kind = "delete" /\ lastOp.source_id = "m1" /\ lastOp.err = 0
    /\ isRecurringMaster(Ev("m1"))
    /\ "m1" \notin Mapped(sub)
    /\ lastOp.target_id \notin DOMAIN target[Cal(sub)]

(***************************************************************************)
(* C33 Mapping key uniqueness: the table event_mappings holds at most one  *)
(* row per (subscription_id, source_id) after every mapping write, and the *)
(* same write once more leaves the table as the first write left it.       *)
(***************************************************************************)
UniqueKeys(rows) == \A r \in rows, q \in rows : SameKey(r, q) => r = q

C33_MappingKeyUnique ==
    result.op = "write" =>
        /\ UniqueKeys(result.rows)
        /\ result.again = result.rows
        /\ ~result.threw => args.row \in result.rows

\* the upsert of a row whose key is in the table with another target id and
\* another etag has replaced the row
C33_Witness ==
    /\ result.op = "write" /\ args.kind = "upsert"
    /\ \E r \in args.rows :
          /\ SameKey(r, args.row)
          /\ r.target_id # args.row.target_id /\ r.etag # args.row.etag
          /\ r \notin result.rows
    /\ args.row \in result.rows
    /\ Cardinality(result.rows) = 2

\* the plain INSERT of a row whose key is in the table has been refused
C33_WitnessInsert ==
    /\ result.op = "write" /\ args.kind = "insert"
    /\ result.threw
    /\ args.row \notin args.rows
    /\ result.rows = args.rows

(***************************************************************************)
(* C34 Forced resync re-creates without duplicates, as amended: after a    *)
(* filter edit with forced resync and one complete run with unrestricted   *)
(* dedup and a backfill window that covers every event, the target         *)
(* calendar holds exactly one event per matching occurrence of the source, *)
(* the one its new mapping points to, and nothing else: the copies made    *)
(* before the wipe are gone.                                               *)
(***************************************************************************)
OneCopyPerMatch(s) ==
    /\ Mapped(s) = Matching(s)
    /\ \A id \in SourceIds :
          Copies(Cal(s), id) =
              IF id \in Matching(s) THEN {event_mappings[s][id].target_id} ELSE {}
    /\ DOMAIN target[Cal(s)] = MappedTargets(s)
    /\ Cardinality(DOMAIN target[Cal(s)]) = Cardinality(Matching(s))

AfterResync(s) ==
    /\ AfterRun(s) /\ hist.edit = "wiped"
    /\ ~DEDUP_MATCH_FILTERS_ONLY

C34_ResyncRecreates ==
    \A s \in Subs : (AfterResync(s) /\ WindowCoversAll) => OneCopyPerMatch(s)

\* C34 as stated: whatever the backfill window
C34_ResyncRecreatesAnyWindow ==
    \A s \in Subs : AfterResync(s) => OneCopyPerMatch(s)

\* the first copy the worker ever made is gone and the matches are mirrored
\* by copies made after the wipe
C34_Witness ==
    /\ AfterResync("A") /\ WindowCoversAll
    /\ Mapped("A") # {}
    /\ 1 \notin DOMAIN target[Cal("A")]
    /\ \A tid \in MappedTargets("A") : tid > 1

(***************************************************************************)
(* C35 Dedup spares mapped events: no step of the dedup pass deletes a     *)
(* target event whose id was a mapping target of the running subscription  *)
(* when the pass started, whether dedup is restricted to matching events   *)
(* or not.                                                                 *)
(***************************************************************************)
C35_DedupSparesMapped ==
    [][ (sub # "" /\ pc \in {"dedupList", "dedup"} /\ worker' # worker) =>
          /\ valid = MappedTargets(sub)
          /\ \A tid \in valid :
                tid \in DOMAIN target[Cal(sub)] => tid \in DOMAIN target'[Cal(sub)]
          /\ lastOp'.kind = "dedup" => lastOp'.target_id \notin valid ]_vars

\* restricted dedup has deleted an orphan and has passed over a mapped event
\* that matches the rule as well
C35_Witness ==
    /\ pc = "finish" /\ DEDUP_MATCH_FILTERS_ONLY
    /\ hist.deduped # {}
    /\ \E tid \in valid :
          /\ tid \in DOMAIN target[Cal(sub)]
          /\ match(sub, target[Cal(sub)][tid])

\* unrestricted dedup has deleted an orphan and has passed over a mapped event
C35_WitnessUnrestricted ==
    /\ pc = "finish" /\ ~DEDUP_MATCH_FILTERS_ONLY
    /\ hist.deduped # {}
    /\ valid # {}
    /\ valid \subseteq DOMAIN target[Cal(sub)]

(***************************************************************************)
(* C36 Shared target calendar: when a batch run of two enabled             *)
(* subscriptions with the same target calendar has ended without error,    *)
(* every mapping row of both subscriptions points to an event that is in   *)
(* the target calendar.                                                    *)
(***************************************************************************)
BatchDone == pc = "idle" /\ \A s \in Subs : hist.ended[s] = "ok"

C36_SharedTarget ==
    (BatchDone /\ Cal("A") = Cal("B")) =>
        \A s \in Subs : MappedTargets(s) \subseteq DOMAIN target[Cal(s)]

(***************************************************************************)
(* C37 Filter edit racing a run: when the filter tool has cleared the      *)
(* cursor of a subscription during the delta pass of a run of it, the next *)
(* run of the subscription starts with no cursor.                          *)
(***************************************************************************)
C37_EditRacingRun ==
    [][ (hist.edit = "raced" /\ sub = "" /\ sub' # "") => state' = NULL ]_vars

(***************************************************************************)
(* C38 Overlapping runs of one subscription: when two worker processes     *)
(* have run the same subscription at the same time and both have finished, *)
(* every mapping row points to an event of the target calendar and no      *)
(* source occurrence has more than one copy there.                         *)
(***************************************************************************)
BothFinished == peer.at = "done" /\ pc = "idle"

C38_OverlappingRuns ==
    BothFinished =>
        /\ MappedTargets(peer.sub) \subseteq DOMAIN target[Cal(peer.sub)]
        /\ \A id \in SourceIds : Cardinality(Copies(Cal(peer.sub), id)) <= 1

(***************************************************************************)
(* C39 Recovery from a missing target copy: when the target copy of a      *)
(* mapped occurrence that matches is gone from the target calendar, then   *)
(* after finitely many runs the target calendar holds a copy of the        *)
(* occurrence again and last_status is ok (or the occurrence has stopped   *)
(* matching).                                                              *)
(***************************************************************************)
CopyMissing(s, id) ==
    /\ id \in Mapped(s) /\ id \in Matching(s)
    /\ event_mappings[s][id].target_id \notin DOMAIN target[Cal(s)]

CopyBack(s, id) == Copies(Cal(s), id) # {} /\ Status(s) = "ok"

C39_MissingCopyRecovers ==
    \A id \in SourceIds :
        CopyMissing("A", id) ~> (CopyBack("A", id) \/ id \notin Matching("A"))

(***************************************************************************)
(* C40 Run termination: a run that has started ends (the listings of the   *)
(* provider have finitely many pages); at the end of a page the delta loop *)
(* lists again only when the page carries no nextSyncToken and has a       *)
(* nextPageToken, and the backfill and dedup loops list again only when    *)
(* the page has a nextPageToken.                                           *)
(***************************************************************************)
PageDone(at) == pc = at /\ data.items = <<>>

LoopsStopAtLastPage ==
    /\ PageDone("delta") =>
          (pc' = "listChanges" <=>
              (data.nextSyncToken = NULL /\ data.nextPageToken # <<>>))
    /\ PageDone("delta") /\ pc' # "listChanges" => pc' = "backfillList"
    /\ PageDone("backfill") =>
          /\ pc' = "backfillList" <=> data.nextPageToken # <<>>
          /\ pc' # "backfillList" => pc' = "pruneList"
    /\ PageDone("dedup") =>
          /\ pc' = "dedupList" <=> data.nextPageToken # <<>>
          /\ pc' # "dedupList" => pc' = "finish"

C40_WitnessNextPage ==
    pc = "listChanges" /\ data # NoData /\ data.nextPageToken # <<>>

====
